---- MODULE Spec2Model ----
(***************************************************************************)
(* A model of the bash emulator in cli/src: the quote-aware parsing        *)
(* helpers (parseutils.py), the builtin commands (commands.py), the        *)
(* interpreter (interpreter.py) and the read/execute loop (interface.py).  *)
(*                                                                         *)
(* A text is a sequence of one-character strings.  A Python value that is  *)
(* None, a str or an exception object is a record [kind, text].            *)
(***************************************************************************)
EXTENDS Integers, Sequences, FiniteSets, TLC

\* ---------------------------------------------------------------- bounds
\* Number of lines the user types before the input stream ends.
MaxLines == 2
\* Length of the longest text a parsing function is called with on its own.
MaxLen == 4
\* Number of file arguments Grep.run is called with on its own.
MaxFiles == 2
\* Number of add_line calls made on a formatter on its own.
MaxCalls == 3

\* ------------------------------------------------------- Python values
None == [kind |-> "None", text |-> <<>>]
Str(text) == [kind |-> "str", text |-> text]
CommandException(text) == [kind |-> "CommandException", text |-> text]

\* The outcome of a call: a returned value, or a raised exception.
Returned(val) == [raised |-> "", val |-> val]
Raised(exc, val) == [raised |-> exc, val |-> val]

\* Truthiness of a value: None and '' are falsy, every exception object
\* and every non-empty str is truthy.
Truthy(value) == value.kind = "CommandException" \/ (value.kind = "str" /\ value.text # <<>>)

\* ------------------------------------------------- character classes
\* re.compile(r'\|')
PIPE == {"|"}
\* re.compile(r'\s'), restricted to the whitespace the inputs use
WHITESPACE == {" ", "\n", "\t"}
\* re.compile(r'''['"]''')
QUOTES == {"'", "\""}
\* re.compile(r'''\s|'|"|\$''')
VARIABLE_END == WHITESPACE \cup QUOTES \cup {"$"}
\* \w, restricted to the word characters the inputs use
WORD == {"a", "b", "c", "d", "e", "f", "g", "h", "i", "j", "k", "l", "m",
         "n", "o", "p", "q", "r", "s", "t", "u", "v", "w", "x", "y", "z",
         "0", "1", "2", "3", "4", "5", "6", "7", "8", "9", "_"}
\* os.linesep
linesep == <<"\n">>

Min(a, b) == IF a < b THEN a ELSE b

\* Python's expression[a:b] for 0 <= a, b <= len(expression)
Slice(expression, a, b) == SubSeq(expression, a + 1, b)

RECURSIVE Join(_, _)
Join(separator, texts) ==
    IF texts = <<>> THEN <<>>
    ELSE IF Len(texts) = 1 THEN texts[1]
    ELSE texts[1] \o separator \o Join(separator, Tail(texts))

\* text.rstrip(): the text up to its last character that is not whitespace
rstrip(text) ==
    LET solid == {i \in 1..Len(text) : text[i] \notin WHITESPACE}
    IN  IF solid = {} THEN <<>>
        ELSE SubSeq(text, 1, CHOOSE i \in solid : \A j \in solid : j <= i)

endswith(text, suffix) ==
    /\ Len(suffix) <= Len(text)
    /\ SubSeq(text, Len(text) - Len(suffix) + 1, Len(text)) = suffix

\* sorted(S) for a set of integers: the k-th element has k - 1 smaller ones
sorted(S) ==
    [k \in 1..Cardinality(S) |->
        CHOOSE x \in S : Cardinality({y \in S : y < x}) = k - 1]

\* ------------------------------------------------------- QuoteParser
UNQUOTED == 0
IN_SINGLE == 1
IN_DOUBLE == 2

\* 1 ^ value
Xor1(value) == IF value % 2 = 0 THEN value + 1 ELSE value - 1

\* As next_state, but a quote of either kind ends whatever quoting is open.
next_state_AnyQuoteCloses(state, next_symbol) ==
    IF next_symbol = "\"" THEN (IF state = UNQUOTED THEN IN_DOUBLE ELSE UNQUOTED)
    ELSE IF next_symbol = "'" THEN (IF state = UNQUOTED THEN IN_SINGLE ELSE UNQUOTED)
    ELSE state

\* As next_state, but the value for a single quote is not capped at 2.
next_state_WithoutMin(state, next_symbol) ==
    IF next_symbol = "\"" THEN 2 - state
    ELSE IF next_symbol = "'" THEN Xor1(state)
    ELSE state

next_state(state, next_symbol) ==
    IF next_symbol = "\"" THEN 2 - state
    ELSE IF next_symbol = "'" THEN Min(2, Xor1(state))
    ELSE state

\* The loop the four scans share,
\*     for symbol in expression: state = _next_state(state, symbol)
\* run over the symbols first..last: the first half of the range, then the
\* second half from the state the first half ends in.
RECURSIVE scan(_, _, _, _)
scan(state, expression, first, last) ==
    IF first > last THEN state
    ELSE IF first = last THEN next_state(state, expression[first])
    ELSE LET middle == (first + last) \div 2
             state_at_middle == scan(state, expression, first, middle)
         IN  IF state_at_middle \in {UNQUOTED, IN_SINGLE, IN_DOUBLE}
             THEN scan(state_at_middle, expression, middle + 1, last)
             ELSE state_at_middle

\* The state after the first n symbols of the expression, from UNQUOTED.
scan_state(expression, n) == scan(UNQUOTED, expression, 1, n)

quotes_match(expression) == scan_state(expression, Len(expression)) = UNQUOTED

\* As find_expandable_variables, but the quote state is not looked at.
find_expandable_variables_InSingleToo(expression) ==
    {i \in 0..(Len(expression) - 1) : expression[i + 1] = "$"}

\* As find_expandable_variables, but a '$' inside double quotes is left
\* out too.
find_expandable_variables_UnquotedOnly(expression) ==
    {i \in 0..(Len(expression) - 1) :
        scan_state(expression, i + 1) = UNQUOTED /\ expression[i + 1] = "$"}

\* Indexes are 0-based, as in the source.
find_expandable_variables(expression) ==
    {i \in 0..(Len(expression) - 1) :
        scan_state(expression, i + 1) # IN_SINGLE /\ expression[i + 1] = "$"}

\* As find_unquoted_symbols, but only the state before the symbol counts.
find_unquoted_symbols_StateBeforeOnly(expression, pattern) ==
    {i \in 0..(Len(expression) - 1) :
        /\ expression[i + 1] \in pattern
        /\ scan_state(expression, i) = UNQUOTED}

find_unquoted_symbols(expression, pattern) ==
    {i \in 0..(Len(expression) - 1) :
        /\ expression[i + 1] \in pattern
        /\ UNQUOTED \in {scan_state(expression, i + 1), scan_state(expression, i)}}

\* As remove_quotes, but every quote is removed, quoted ones too.
remove_quotes_AllQuotes(expression) ==
    SelectSeq(expression, LAMBDA symbol : symbol \notin QUOTES)

remove_quotes(expression) ==
    LET remove == find_unquoted_symbols(expression, QUOTES)
        kept == sorted({j \in 0..(Len(expression) - 1) : j \notin remove})
    IN  [k \in 1..Len(kept) |-> expression[kept[k] + 1]]

\* As split_keeping_quotes, but each slice ends one index later and so
\* keeps the symbol it was split at.
split_keeping_quotes_KeepsDelimiter(expression, pattern) ==
    LET bad_symbol_indexes == sorted(find_unquoted_symbols(expression, pattern))
        breaks == <<-1>> \o bad_symbol_indexes \o <<Len(expression)>>
    IN  [i \in 1..(Len(breaks) - 1) |->
            Slice(expression, breaks[i] + 1, Min(breaks[i + 1] + 1, Len(expression)))]

\* As split_keeping_quotes, but the empty slices are left out.
split_keeping_quotes_DropsEmpty(expression, pattern) ==
    LET bad_symbol_indexes == sorted(find_unquoted_symbols(expression, pattern))
        breaks == <<-1>> \o bad_symbol_indexes \o <<Len(expression)>>
    IN  SelectSeq([i \in 1..(Len(breaks) - 1) |->
                        Slice(expression, breaks[i] + 1, breaks[i + 1])],
                  LAMBDA slice : slice # <<>>)

split_keeping_quotes(expression, pattern) ==
    LET bad_symbol_indexes == sorted(find_unquoted_symbols(expression, pattern))
        breaks == <<-1>> \o bad_symbol_indexes \o <<Len(expression)>>
    IN  [i \in 1..(Len(breaks) - 1) |-> Slice(expression, breaks[i] + 1, breaks[i + 1])]

\* -------------------------------------------------- PipelineSplitter
\* As split_into_commands, but a quoted pipe splits the pipeline too.
split_into_commands_IgnoresQuotes(pipeline) ==
    LET bad_symbol_indexes ==
            sorted({i \in 0..(Len(pipeline) - 1) : pipeline[i + 1] \in PIPE})
        breaks == <<-1>> \o bad_symbol_indexes \o <<Len(pipeline)>>
    IN  [i \in 1..(Len(breaks) - 1) |-> Slice(pipeline, breaks[i] + 1, breaks[i + 1])]

split_into_commands(pipeline) == split_keeping_quotes(pipeline, PIPE)

\* ------------------------------------------------- the process's world
\* os.environ
Environ == (<<"h">> :> <<"/", "r">>)

environ_get(name, default) == IF name \in DOMAIN Environ THEN Environ[name] ELSE default

\* The files open() finds, with their contents; any other name is missing.
Files == (<<"f">> :> <<"x", " ", "y", "\n">>) @@ (<<"m">> :> <<"x", "\n", "y", "\n", "y", "\n", "x", "\n">>) @@ (<<"n">> :> <<"y", "\n", "x", "y">>)

\* The message of the IOError open() raises for a missing file.
IOErrorMessage(file_name) == <<"[", "E", "r", "r", "n", "o", " ", "2", "]", " ">> \o file_name

\* os.getcwd()
Cwd == <<"/", "w">>

\* The executables subprocess.run can locate, and what such a process may
\* write before it exits with status 0 (stdout) or non-zero (stderr).
PathExecutables == {<<"l", "s">>}
ProcessStdout == {<<"f", "\n">>}
ProcessStderr == {<<"l", "s", ":", " ", "e", "\n">>}

\* -------------------------------------------- _EnvironmentVariables
EnvironmentVariables_getitem(variables, name) ==
    LET default == environ_get(name, <<>>)
    IN  IF name \in DOMAIN variables THEN variables[name] ELSE default

\* As EnvironmentVariables_setitem, but the other names are forgotten.
EnvironmentVariables_setitem_ForgetsOthers(variables, name, value) ==
    [n \in {name} |-> value]

EnvironmentVariables_setitem(variables, name, value) ==
    [n \in DOMAIN variables \cup {name} |-> IF n = name THEN value ELSE variables[n]]

\* `name in self.variables` for an _EnvironmentVariables object: the class
\* defines neither __contains__ nor __iter__, so Python probes
\* __getitem__(0), __getitem__(1), ... until IndexError.  The first probe
\* evaluates environ.get(0, ''), and os.environ raises TypeError for a key
\* that is not a str.
EnvironmentVariables_contains(variables, name) == Raised("TypeError", FALSE)

\* --------------------------------------------------- CommandExpander
find_variable_end(command, start_index) ==
    LET ends == {i \in start_index..(Len(command) - 1) : command[i + 1] \in VARIABLE_END}
    IN  IF ends = {} THEN Len(command)
        ELSE CHOOSE i \in ends : \A j \in ends : i <= j

find_variable_value(variables, name) ==
    LET found == EnvironmentVariables_contains(variables, name)
    IN  IF found.raised # "" THEN Raised(found.raised, <<>>)
        ELSE IF found.val THEN Returned(EnvironmentVariables_getitem(variables, name))
        ELSE Returned(environ_get(name, <<>>))

\* The while loop of _expand_variables from cnt_index on.  The turns that
\* copy one character each, up to the next expandable '$' or the end of
\* the command, are taken together.
RECURSIVE expand_loop(_, _, _, _, _)
expand_loop(command, variables, dollar_indexes, cnt_index, result) ==
    IF cnt_index >= Len(command) THEN Returned(result)
    ELSE IF cnt_index \in dollar_indexes
    THEN LET start_index == cnt_index + 1
             end_index == find_variable_end(command, start_index)
             variable == Slice(command, start_index, end_index)
             value == find_variable_value(variables, variable)
         IN  IF value.raised # "" THEN value
             ELSE expand_loop(command, variables, dollar_indexes, end_index,
                              result \o value.val)
    ELSE LET later == {i \in dollar_indexes : i > cnt_index} \cup {Len(command)}
             copy_end == CHOOSE i \in later : \A j \in later : i <= j
         IN  expand_loop(command, variables, dollar_indexes, copy_end,
                         result \o Slice(command, cnt_index, copy_end))

expand_variables(command, variables) ==
    expand_loop(command, variables, find_expandable_variables(command), 0, <<>>)

\* As split_into_argument_list, but the empty words are kept.
split_into_argument_list_KeepsEmpty(command) ==
    LET words == split_keeping_quotes(command, WHITESPACE)
    IN  [i \in 1..Len(words) |-> remove_quotes(words[i])]

split_into_argument_list(command) ==
    LET words == split_keeping_quotes(command, WHITESPACE)
        kept == SelectSeq(words, LAMBDA word : word # <<>>)
    IN  [i \in 1..Len(kept) |-> remove_quotes(kept[i])]

parse(command, variables) ==
    LET command_with_expanded_variables == expand_variables(command, variables)
    IN  IF command_with_expanded_variables.raised # ""
        THEN command_with_expanded_variables
        ELSE Returned(split_into_argument_list(command_with_expanded_variables.val))

\* ---------------------------------------------------------- commands
\* open(file_name, 'r') followed by fin.read()
read_file(prefix, file_name) ==
    IF file_name \in DOMAIN Files THEN Returned(Files[file_name])
    ELSE Raised("CommandException",
                CommandException(prefix \o <<":", " ">> \o IOErrorMessage(file_name)))

RECURSIVE cat_files(_, _)
cat_files(args, result) ==
    IF args = <<>> THEN Returned(Str(result))
    ELSE LET contents == read_file(<<"c", "a", "t">>, Head(args))
         IN  IF contents.raised # "" THEN contents
             ELSE cat_files(Tail(args), result \o contents.val)

Cat_run(args, input) ==
    IF args = <<>> THEN Returned(input) ELSE cat_files(args, <<>>)

Echo_run(args, input) == Returned(Str(Join(<<" ">>, args)))

Pwd_run(args, input) == Returned(Str(Cwd))

\* '{}'.format(n) for n >= 0
RECURSIVE format_int(_)
format_int(n) ==
    LET digit == <<"0", "1", "2", "3", "4", "5", "6", "7", "8", "9">>[(n % 10) + 1]
    IN  IF n < 10 THEN <<digit>> ELSE Append(format_int(n \div 10), digit)

\* input.count('\n')
count_newlines(text) == Cardinality({i \in 1..Len(text) : text[i] = "\n"})

\* len(input.split())
count_words(text) ==
    Cardinality({i \in 1..Len(text) :
        text[i] \notin WHITESPACE /\ (i = 1 \/ text[i - 1] \in WHITESPACE)})

Wc_run(args, input) ==
    LET contents == IF args # <<>> THEN read_file(<<"w", "c">>, args[1]) ELSE Returned(<<>>)
        counted == IF args # <<>> THEN Str(contents.val) ELSE input
    IN  IF contents.raised # "" THEN contents
        ELSE IF Truthy(counted)
        THEN Returned(Str(format_int(count_newlines(counted.text) + 1) \o <<" ">>
                          \o format_int(count_words(counted.text)) \o <<" ">>
                          \o format_int(Len(counted.text))))
        ELSE Returned(None)

\* External.run: the set of outcomes, one per way the subprocess can end.
External_run(args, input) ==
    IF args = <<>> THEN {Returned(None)}
    ELSE IF args[1] \notin PathExecutables
    THEN {Raised("CommandException", CommandException(args[1] \o <<":", " ", "c", "o", "m", "m", "a", "n", "d", " ", "n", "o", "t", " ", "f", "o", "u", "n", "d", ".", ".", ".">>))}
    ELSE {Returned(Str(rstrip(out))) : out \in ProcessStdout}
         \cup {Raised("CommandException", CommandException(rstrip(err))) : err \in ProcessStderr}

\* ------------------------------------------------------- Interpreter
\* re.match(r'\w+?=\w*', text): some non-empty run of word characters at
\* the start of the text is followed by '='; \w* then matches any rest.
\* As match_ASSIGNMENT_PATTERN, but anchored at the end of the text too.
match_ASSIGNMENT_PATTERN_Anchored(text) ==
    \E k \in 1..(Len(text) - 1) :
        /\ \A j \in 1..k : text[j] \in WORD
        /\ text[k + 1] = "="
        /\ \A j \in (k + 2)..Len(text) : text[j] \in WORD

match_ASSIGNMENT_PATTERN(text) ==
    \E k \in 1..(Len(text) - 1) :
        (\A j \in 1..k : text[j] \in WORD) /\ text[k + 1] = "="

is_assignment(command) == Len(command) = 1 /\ match_ASSIGNMENT_PATTERN(command[1])

\* As split_first_equals, but the text is split at its last '='.
split_first_equals_AtLast(text) ==
    LET at == CHOOSE i \in 1..Len(text) :
                  text[i] = "=" /\ \A j \in (i + 1)..Len(text) : text[j] # "="
    IN  <<SubSeq(text, 1, at - 1), SubSeq(text, at + 1, Len(text))>>

\* text.split('=', 1) of a text that contains '='
split_first_equals(text) ==
    LET at == CHOOSE i \in 1..Len(text) : text[i] = "=" /\ \A j \in 1..(i - 1) : text[j] # "="
    IN  <<SubSeq(text, 1, at - 1), SubSeq(text, at + 1, Len(text))>>

\* The names _InterpreterCommands maps to a builtin; any other name maps
\* to External.
supported_commands == {<<"e", "c", "h", "o">>, <<"c", "a", "t">>, <<"w", "c">>, <<"p", "w", "d">>, <<"e", "x", "i", "t">>}

EXIT_COMMAND == <<"e", "x", "i", "t">>

\* Whether the command is the exit builtin.
is_exit(command) == Len(command) > 0 /\ command[1] = EXIT_COMMAND

run_builtin(name, args, input) ==
    CASE name = <<"e", "c", "h", "o">> -> Echo_run(args, input)
      [] name = <<"c", "a", "t">> -> Cat_run(args, input)
      [] name = <<"w", "c">> -> Wc_run(args, input)
      [] name = <<"p", "w", "d">> -> Pwd_run(args, input)

\* As catches, but no exception is caught.
catches_Nothing(raised) == FALSE

\* `except CommandException` in execute_pipeline
catches(raised) == raised = "CommandException"

\* Which branch of _execute_command the command takes.
command_branch(command) ==
    IF is_assignment(command) THEN "assignment"
    ELSE IF Len(command) > 0 /\ command[1] \in supported_commands THEN "builtin"
    ELSE "external"

\* As execute_assignment, but the command's input is returned.
execute_assignment_PassesInput(command, input, store) ==
    LET pair == split_first_equals(command[1])
    IN  [raised |-> "", val |-> input,
         variables |-> EnvironmentVariables_setitem(store, pair[1], pair[2])]

\* The assignment branch of _execute_command: it sets the variable and,
\* having no return statement, returns None.
execute_assignment(command, input, store) ==
    LET pair == split_first_equals(command[1])
    IN  [raised |-> "", val |-> None,
         variables |-> EnvironmentVariables_setitem(store, pair[1], pair[2])]

\* As execute_command, but External gets the arguments that follow the
\* command's name, as a builtin does.
execute_command_ExternalGetsTail(command, input, store) ==
    CASE command_branch(command) = "assignment" ->
            {execute_assignment(command, input, store)}
      [] command_branch(command) = "builtin" ->
            LET outcome == run_builtin(command[1], Tail(command), input)
            IN  {[raised |-> outcome.raised, val |-> outcome.val, variables |-> store]}
      [] command_branch(command) = "external" ->
            {[raised |-> outcome.raised, val |-> outcome.val, variables |-> store] :
                outcome \in External_run(IF command = <<>> THEN command ELSE Tail(command),
                                         input)}

\* _execute_command: the set of outcomes, each with the variables it leaves.
execute_command(command, input, store) ==
    CASE command_branch(command) = "assignment" ->
            {execute_assignment(command, input, store)}
      [] command_branch(command) = "builtin" ->
            LET outcome == run_builtin(command[1], Tail(command), input)
            IN  {[raised |-> outcome.raised, val |-> outcome.val, variables |-> store]}
      [] command_branch(command) = "external" ->
            {[raised |-> outcome.raised, val |-> outcome.val, variables |-> store] :
                outcome \in External_run(command, input)}

\* ------------------------------------------------------------- inputs
\* The lines the user may type at a prompt.
TypedLines == {
    <<"e", "c", "h", "o", " ", "5", " ", "|", " ", "c", "a", "t", "|", "e", "x", "i", "t", " ", "|", "e", "c", "h", "o", " ", "8">>,
    <<"e", "c", "h", "o", " ", "w", "o", "r", "k", "e", "d", " ", "|", " ", "h", "e", "l", "l", "o", "_", "k", "i", "t", "t", "y", " ", "m", "e", "o", "w", " ", "|", " ", "e", "x", "i", "t">>,
    <<"e", "c", "h", "o", " ", "s", "o", "m", "e", " ", "t", "e", "x", "t", " ", "|", " ", "e", "c", "h", "o", " ", "m", "o", "r", "e", " ", "t", "e", "x", "t">>,
    <<"a", "=", "7", " ", "|", " ", "c", "=", "d", "4", " ", " ", "|", " ", "e", "c", "h", "o", " ", "$", "a", "$", "c", "$", "b">>,
    <<"e", "c", "h", "o", " ", "x", " ", "|", " ", "v", "a", "r", "=", "1", "7", "9", " ", "|", " ", "c", "a", "t">>,
    <<"b", "=", "2", " ", "|", " ", "c", "a", "t", " ", "g", " ", "|", " ", "c", "=", "3">>,
    <<>>,
    <<"a", "=", "7">>,
    <<"e", "c", "h", "o", " ", "$", "a">>,
    <<"e", "c", "h", "o", " ", "'", "$", "a", "'">>,
    <<"c", "a", "t", " ", "f", " ", "|", " ", "w", "c">>,
    <<"l", "s">>,
    <<"p", "w", "d">>,
    <<"e", "x", "i", "t">>,
    <<"a", "=", "b", "-", "c">>,
    <<"q", "-", "w", "=", "2">>,
    <<"a", "=", "a", "=", "a">>,
    <<"a", "=", "6", " ", "b", "=", "7">>,
    <<"e", "c", "h", "o", " ", "5", " ", "|">>,
    <<"e", "c", "h", "o", " ", "\"", "x">>,
    <<"e", "c", "h", "o", " ", "x", " ", "|", " ", "g", "r", "e", "p", " ", "x">>,
    <<"e", "c", "h", "o", " ", "x", " ", "|", " ", "|", " ", "c", "a", "t">>,
    <<"$", "b">>,
    <<"e", "c", "h", "o">>,
    <<"a", "=", "'", "|", "'">>
}

\* -------------------------------------------------------------- state
VARIABLES
    variables,      \* Interpreter._variables.variables
    is_running,     \* Interpreter.is_running
    pc,             \* where CommandLineInterface.run is
    nread,          \* how many lines input() has returned
    user_input,     \* the text Reader.read accumulates and run executes
    stages,         \* the commands execute_pipeline has still to execute
    current_input,  \* execute_pipeline's current_input
    result,         \* what execute_pipeline returned
    printed,        \* what run has printed
    trace,          \* the commands the current pipeline has executed
    uncaught,       \* the exception that ended the program, if any
    expression,     \* the text a parsing function is called with on its own
    called,         \* the parsing function that has been called on its own
    returned,       \* what that call returned
    grep_args,      \* Grep.run's args, when Grep.run is called on its own
    grep_input,     \* Grep.run's input
    grep_pc,        \* where Grep.run is
    parsed_args,    \* Grep.run's parsed_args, a GrepArguments object
    output,         \* Grep.run's output, a GrepOutputFormatter object
    file_index,     \* how many of parsed_args.files have been opened
    grep_file,      \* _get_matches' file_name
    file_contents,  \* _get_matches' text, a list of lines
    line_index,     \* _get_matches' i
    print_end,      \* _get_matches' print_end
    grep_result,    \* what Grep.run returned or raised
    added           \* the calls of output.add_line so far

\* What a call of a parsing function on its own reads and writes.
parser_vars == <<expression, called, returned>>

\* What a call of Grep.run on its own reads and writes.
grep_vars == <<grep_args, grep_input, grep_pc, parsed_args, output, file_index,
               grep_file, file_contents, line_index, print_end, grep_result, added>>

vars == <<variables, is_running, pc, nread, user_input, stages, current_input,
          result, printed, trace, uncaught, expression, called, returned,
          grep_args, grep_input, grep_pc, parsed_args, output, file_index,
          grep_file, file_contents, line_index, print_end, grep_result, added>>

\* Grep.run has not been called.
GrepIdle ==
    /\ grep_args = <<>>
    /\ grep_input = None
    /\ grep_pc = "idle"
    /\ parsed_args = None
    /\ output = None
    /\ file_index = 0
    /\ grep_file = <<>>
    /\ file_contents = <<>>
    /\ line_index = 0
    /\ print_end = -1
    /\ grep_result = None
    /\ added = <<>>

\* The state after Interpreter() at the top of CommandLineInterface.run.
Init ==
    /\ variables = <<>>
    /\ is_running = TRUE
    /\ pc = "loop"
    /\ nread = 0
    /\ user_input = <<>>
    /\ stages = <<>>
    /\ current_input = None
    /\ result = None
    /\ printed = <<>>
    /\ trace = <<>>
    /\ uncaught = ""
    /\ expression = <<>>
    /\ called = ""
    /\ returned = None
    /\ GrepIdle

\* ------------------------------------------------------------- Reader
\* As needs_continuation, but a pipe at the end asks for no further line.
needs_continuation_QuotesOnly(text) == ~quotes_match(text)

\* The condition of Reader.read's while loop.
needs_continuation(text) ==
    ~quotes_match(text) \/ endswith(rstrip(text), <<"|">>)

\* As ReadFirst, but the loop goes on whatever is_running is.
ReadFirst_IgnoresRunning ==
    /\ pc = "loop"
    /\ nread < MaxLines
    /\ \E line \in TypedLines : user_input' = line
    /\ nread' = nread + 1
    /\ pc' = "reading"
    /\ UNCHANGED <<variables, is_running, stages, current_input, result, printed,
                   trace, uncaught>>
    /\ UNCHANGED parser_vars
    /\ UNCHANGED grep_vars

\* `while emulator.is_running` holds and input('$ ') returns a line.
ReadFirst ==
    /\ pc = "loop" /\ is_running
    /\ nread < MaxLines
    /\ \E line \in TypedLines : user_input' = line
    /\ nread' = nread + 1
    /\ pc' = "reading"
    /\ UNCHANGED <<variables, is_running, stages, current_input, result, printed,
                   trace, uncaught>>
    /\ UNCHANGED parser_vars
    /\ UNCHANGED grep_vars

\* One more turn of Reader.read's loop: input('> ') returns a line.
ReadMore ==
    /\ pc = "reading" /\ needs_continuation(user_input)
    /\ nread < MaxLines
    /\ \E line \in TypedLines : user_input' = user_input \o linesep \o line
    /\ nread' = nread + 1
    /\ UNCHANGED <<variables, is_running, pc, stages, current_input, result,
                   printed, trace, uncaught>>
    /\ UNCHANGED parser_vars
    /\ UNCHANGED grep_vars

\* input() finds the input stream closed: EOFError leaves run.
ReadEOF ==
    /\ \/ pc = "loop" /\ is_running
       \/ pc = "reading" /\ needs_continuation(user_input)
    /\ pc' = "crashed"
    /\ uncaught' = "EOFError"
    /\ UNCHANGED <<variables, is_running, nread, user_input, stages, current_input,
                   result, printed, trace>>
    /\ UNCHANGED parser_vars
    /\ UNCHANGED grep_vars

\* As LoopExit, but the loop ends when the last result was None.
LoopExit_OnAbsentResult ==
    /\ pc = "loop" /\ result = None
    /\ pc' = "done"
    /\ UNCHANGED <<variables, is_running, nread, user_input, stages, current_input,
                   result, printed, trace, uncaught>>
    /\ UNCHANGED parser_vars
    /\ UNCHANGED grep_vars

\* `while emulator.is_running` fails: run returns.
LoopExit ==
    /\ pc = "loop" /\ ~is_running
    /\ pc' = "done"
    /\ UNCHANGED <<variables, is_running, nread, user_input, stages, current_input,
                   result, printed, trace, uncaught>>
    /\ UNCHANGED parser_vars
    /\ UNCHANGED grep_vars

\* -------------------------------------------------- execute_pipeline
\* Reader.read returns and execute_pipeline splits the line.
ExecutePipeline ==
    /\ pc = "reading" /\ ~needs_continuation(user_input)
    /\ stages' = split_into_commands(user_input)
    /\ current_input' = None
    /\ trace' = <<>>
    /\ pc' = "exec"
    /\ UNCHANGED <<variables, is_running, nread, user_input, result, printed, uncaught>>
    /\ UNCHANGED parser_vars
    /\ UNCHANGED grep_vars

\* The entry the trace keeps of an executed command.
Executed(command, input, outcome) ==
    [args |-> command, input |-> input, branch |-> command_branch(command),
     raised |-> outcome.raised, output |-> outcome.val]

\* The parsing of the next command raises: nothing in execute_pipeline or
\* in run catches a TypeError.
StageParseError ==
    /\ pc = "exec" /\ stages # <<>>
    /\ LET parsed == parse(Head(stages), variables)
       IN  /\ parsed.raised # ""
           /\ uncaught' = parsed.raised
    /\ pc' = "crashed"
    /\ UNCHANGED <<variables, is_running, nread, user_input, stages, current_input,
                   result, printed, trace>>
    /\ UNCHANGED parser_vars
    /\ UNCHANGED grep_vars

\* The next command is exit: the interpreter stops and the pipeline ends.
StageExit ==
    /\ pc = "exec" /\ stages # <<>>
    /\ LET parsed == parse(Head(stages), variables)
       IN  parsed.raised = "" /\ is_exit(parsed.val)
    /\ is_running' = FALSE
    /\ result' = None
    /\ stages' = <<>>
    /\ pc' = "print"
    /\ UNCHANGED <<variables, nread, user_input, current_input, printed, trace, uncaught>>
    /\ UNCHANGED parser_vars
    /\ UNCHANGED grep_vars

\* As Stage, but a CommandException also stops the interpreter.
Stage_FailureStops(branch) ==
    /\ pc = "exec" /\ stages # <<>>
    /\ LET parsed == parse(Head(stages), variables)
       IN  /\ parsed.raised = "" /\ ~is_exit(parsed.val)
           /\ command_branch(parsed.val) = branch
           /\ \E outcome \in execute_command(parsed.val, current_input, variables) :
                /\ trace' = Append(trace, Executed(parsed.val, current_input, outcome))
                /\ variables' = outcome.variables
                /\ IF outcome.raised = ""
                   THEN /\ current_input' = outcome.val
                        /\ stages' = Tail(stages)
                        /\ pc' = "exec"
                        /\ UNCHANGED <<result, uncaught, is_running>>
                   ELSE IF catches(outcome.raised)
                   THEN /\ result' = outcome.val
                        /\ stages' = <<>>
                        /\ pc' = "print"
                        /\ is_running' = FALSE /\ UNCHANGED <<current_input, uncaught>>
                   ELSE /\ uncaught' = outcome.raised
                        /\ pc' = "crashed"
                        /\ UNCHANGED <<result, stages, current_input, is_running>>
    /\ UNCHANGED <<nread, user_input, printed>>
    /\ UNCHANGED parser_vars
    /\ UNCHANGED grep_vars

\* One turn of execute_pipeline's loop for a command of the given branch:
\* the command's output becomes the next input, or its CommandException
\* is returned as the pipeline's result.
Stage(branch) ==
    /\ pc = "exec" /\ stages # <<>>
    /\ LET parsed == parse(Head(stages), variables)
       IN  /\ parsed.raised = "" /\ ~is_exit(parsed.val)
           /\ command_branch(parsed.val) = branch
           /\ \E outcome \in execute_command(parsed.val, current_input, variables) :
                /\ trace' = Append(trace, Executed(parsed.val, current_input, outcome))
                /\ variables' = outcome.variables
                /\ IF outcome.raised = ""
                   THEN /\ current_input' = outcome.val
                        /\ stages' = Tail(stages)
                        /\ pc' = "exec"
                        /\ UNCHANGED <<result, uncaught>>
                   ELSE IF catches(outcome.raised)
                   THEN /\ result' = outcome.val
                        /\ stages' = <<>>
                        /\ pc' = "print"
                        /\ UNCHANGED <<current_input, uncaught>>
                   ELSE /\ uncaught' = outcome.raised
                        /\ pc' = "crashed"
                        /\ UNCHANGED <<result, stages, current_input>>
    /\ UNCHANGED <<is_running, nread, user_input, printed>>
    /\ UNCHANGED parser_vars
    /\ UNCHANGED grep_vars

StageAssignment == Stage("assignment")
StageBuiltin == Stage("builtin")
StageExternal == Stage("external")

\* Every command has been executed: the last output is the result.
PipelineReturn ==
    /\ pc = "exec" /\ stages = <<>>
    /\ result' = current_input
    /\ pc' = "print"
    /\ UNCHANGED <<variables, is_running, nread, user_input, stages, current_input,
                   printed, trace, uncaught>>
    /\ UNCHANGED parser_vars
    /\ UNCHANGED grep_vars

\* As PrintResult, but a result that is an exception ends the loop.
PrintResult_QuitsOnFailure ==
    /\ pc = "print"
    /\ printed' = IF Truthy(result) THEN Append(printed, result.text) ELSE printed
    /\ pc' = IF result.kind = "CommandException" THEN "done" ELSE "loop"
    /\ UNCHANGED <<variables, is_running, nread, user_input, stages, current_input,
                   result, trace, uncaught>>
    /\ UNCHANGED parser_vars
    /\ UNCHANGED grep_vars

\* `if result: print(result)`, then back to the loop's condition.
PrintResult ==
    /\ pc = "print"
    /\ printed' = IF Truthy(result) THEN Append(printed, result.text) ELSE printed
    /\ pc' = "loop"
    /\ UNCHANGED <<variables, is_running, nread, user_input, stages, current_input,
                   result, trace, uncaught>>
    /\ UNCHANGED parser_vars
    /\ UNCHANGED grep_vars

Next ==
    \/ ReadFirst
    \/ ReadMore
    \/ ReadEOF
    \/ LoopExit
    \/ ExecutePipeline
    \/ StageParseError
    \/ StageExit
    \/ StageAssignment
    \/ StageBuiltin
    \/ StageExternal
    \/ PipelineReturn
    \/ PrintResult

Spec == Init /\ [][Next]_vars


\* --------------------------------- the parsing functions on their own
\* The characters of the texts: a word character, the variable sign, the
\* two quotes, a whitespace and the pipe.
Alphabet == {"h", "$", "'", "\"", " ", "|"}

Texts == UNION {[1..n -> Alphabet] : n \in 0..MaxLen}

\* Dictionaries the interpreter's variables can hold: none assigned, and
\* after h=5.
Stores == {<<>>, (<<"h">> :> <<"5">>)}

interpreter_vars == <<is_running, pc, nread, user_input, stages, current_input,
                      result, printed, trace, uncaught>>

\* An _EnvironmentVariables object and a text, before any call.
ParserInit ==
    /\ expression \in Texts
    /\ variables \in Stores
    /\ called = ""
    /\ returned = None
    /\ is_running = TRUE
    /\ pc = "loop"
    /\ nread = 0
    /\ user_input = <<>>
    /\ stages = <<>>
    /\ current_input = None
    /\ result = None
    /\ printed = <<>>
    /\ trace = <<>>
    /\ uncaught = ""
    /\ GrepIdle

\* QuoteParser.quotes_match(expression)
QuotesMatch ==
    /\ called = ""
    /\ called' = "quotes_match"
    /\ returned' = quotes_match(expression)
    /\ UNCHANGED <<expression, variables>>
    /\ UNCHANGED interpreter_vars
    /\ UNCHANGED grep_vars

\* PipelineSplitter.split_into_commands(expression)
SplitIntoCommands ==
    /\ called = ""
    /\ called' = "split_into_commands"
    /\ returned' = split_into_commands(expression)
    /\ UNCHANGED <<expression, variables>>
    /\ UNCHANGED interpreter_vars
    /\ UNCHANGED grep_vars

\* CommandExpander(variables)._expand_variables(expression)
ExpandVariables ==
    /\ called = ""
    /\ called' = "expand_variables"
    /\ returned' = expand_variables(expression, variables)
    /\ UNCHANGED <<expression, variables>>
    /\ UNCHANGED interpreter_vars
    /\ UNCHANGED grep_vars

\* CommandExpander(variables)._find_variable_value(expression)
FindVariableValue ==
    /\ called = ""
    /\ called' = "find_variable_value"
    /\ returned' = find_variable_value(variables, expression)
    /\ UNCHANGED <<expression, variables>>
    /\ UNCHANGED interpreter_vars
    /\ UNCHANGED grep_vars

\* variables[expression], that is _EnvironmentVariables.__getitem__
GetItem ==
    /\ called = ""
    /\ called' = "getitem"
    /\ returned' = Returned(EnvironmentVariables_getitem(variables, expression))
    /\ UNCHANGED <<expression, variables>>
    /\ UNCHANGED interpreter_vars
    /\ UNCHANGED grep_vars

\* CommandExpander._split_into_argument_list(expression)
SplitIntoArgumentList ==
    /\ called = ""
    /\ called' = "split_into_argument_list"
    /\ returned' = split_into_argument_list(expression)
    /\ UNCHANGED <<expression, variables>>
    /\ UNCHANGED interpreter_vars
    /\ UNCHANGED grep_vars

\* QuoteParser.remove_quotes(expression)
RemoveQuotes ==
    /\ called = ""
    /\ called' = "remove_quotes"
    /\ returned' = remove_quotes(expression)
    /\ UNCHANGED <<expression, variables>>
    /\ UNCHANGED interpreter_vars
    /\ UNCHANGED grep_vars

\* QuoteParser._next_state(state, expression) for a single symbol
NextState ==
    /\ called = ""
    /\ Len(expression) = 1
    /\ \E state \in {UNQUOTED, IN_SINGLE, IN_DOUBLE} :
            returned' = [state |-> state, next |-> next_state(state, expression[1])]
    /\ called' = "next_state"
    /\ UNCHANGED <<expression, variables>>
    /\ UNCHANGED interpreter_vars
    /\ UNCHANGED grep_vars

\* QuoteParser.find_expandable_variables(expression)
FindExpandableVariables ==
    /\ called = ""
    /\ called' = "find_expandable_variables"
    /\ returned' = find_expandable_variables(expression)
    /\ UNCHANGED <<expression, variables>>
    /\ UNCHANGED interpreter_vars
    /\ UNCHANGED grep_vars

\* The patterns the program searches for outside quotes.
Patterns == {QUOTES, PIPE, WHITESPACE}

\* QuoteParser.find_unquoted_symbols(expression, pattern)
FindUnquotedSymbols ==
    /\ called = ""
    /\ called' = "find_unquoted_symbols"
    /\ \E pattern \in Patterns :
            returned' = [pattern |-> pattern,
                         indexes |-> find_unquoted_symbols(expression, pattern)]
    /\ UNCHANGED <<expression, variables>>
    /\ UNCHANGED interpreter_vars
    /\ UNCHANGED grep_vars

\* QuoteParser.split_keeping_quotes(expression, pattern)
SplitKeepingQuotes ==
    /\ called = ""
    /\ called' = "split_keeping_quotes"
    /\ \E pattern \in Patterns :
            returned' = [pattern |-> pattern,
                         segments |-> split_keeping_quotes(expression, pattern)]
    /\ UNCHANGED <<expression, variables>>
    /\ UNCHANGED interpreter_vars
    /\ UNCHANGED grep_vars

ParserNext ==
    \/ QuotesMatch
    \/ SplitIntoCommands
    \/ ExpandVariables
    \/ FindVariableValue
    \/ GetItem
    \/ SplitIntoArgumentList
    \/ RemoveQuotes
    \/ NextState
    \/ FindExpandableVariables
    \/ FindUnquotedSymbols
    \/ SplitKeepingQuotes

ParserSpec == ParserInit /\ [][ParserNext]_vars

\* --------------------------------------------------------- greputils
\* text.split(os.linesep): the pieces between the line breaks, which are
\* dropped; one piece more than there are line breaks.
split_linesep(text) ==
    LET breaks == sorted({i \in 1..Len(text) : text[i] = "\n"})
        cuts == <<0>> \o breaks \o <<Len(text) + 1>>
    IN  [k \in 1..(Len(breaks) + 1) |-> SubSeq(text, cuts[k] + 1, cuts[k + 1] - 1)]

\* fin.readlines(): each line with the line break that ends it; the last
\* line has none when the file does not end with one.
readlines(text) ==
    LET breaks == sorted({i \in 1..Len(text) : text[i] = "\n"})
        ends == IF text = <<>> \/ text[Len(text)] = "\n" THEN breaks
                ELSE breaks \o <<Len(text)>>
        cuts == <<0>> \o ends
    IN  [k \in 1..Len(ends) |-> SubSeq(text, cuts[k] + 1, cuts[k + 1])]

\* int(token) for the numbers the arguments use; nothing else is a number.
Numerals == (<<"0">> :> 0) @@ (<<"1">> :> 1) @@ (<<"2">> :> 2) @@ (<<"3">> :> 3) @@ (<<"-", "1">> :> -1)

\* A token argparse takes for an option: it starts with '-' and is no
\* negative number.
is_option(token) == token # <<>> /\ token[1] = "-" /\ token \notin DOMAIN Numerals

\* The Namespace parse_args starts from.
Namespace ==
    [ignore_case |-> FALSE, word_regexp |-> FALSE,
     after_context |-> [given |-> FALSE, value |-> 0],
     PATTERN |-> <<>>, FILE |-> <<>>, unrecognized |-> <<>>]

\* _GrepParser.parser().parse_args(args) for argument lists whose options
\* all come before the first positional argument.  The options are read
\* from index k on; then the first positional argument is PATTERN and the
\* others are FILE.  A missing PATTERN is reported before an unrecognized
\* option is.
RECURSIVE parse_args_from(_, _, _)
parse_args_from(args, k, namespace) ==
    IF k <= Len(args) /\ is_option(args[k])
    THEN CASE args[k] = <<"-", "i">> ->
                parse_args_from(args, k + 1, [namespace EXCEPT !.ignore_case = TRUE])
           [] args[k] = <<"-", "w">> ->
                parse_args_from(args, k + 1, [namespace EXCEPT !.word_regexp = TRUE])
           [] args[k] = <<"-", "A">> ->
                IF k = Len(args) \/ is_option(args[k + 1])
                THEN Raised("ParsingException",
                            <<"a", "r", "g", "u", "m", "e", "n", "t", " ", "-", "A", "/", "-", "-", "a", "f", "t", "e", "r", "-", "c", "o", "n", "t", "e", "x", "t", ":", " ", "e", "x", "p", "e", "c", "t", "e", "d", " ", "o", "n", "e", " ", "a", "r", "g", "u", "m", "e", "n", "t">>)
                ELSE IF args[k + 1] \notin DOMAIN Numerals
                THEN Raised("ParsingException",
                            <<"a", "r", "g", "u", "m", "e", "n", "t", " ", "-", "A", "/", "-", "-", "a", "f", "t", "e", "r", "-", "c", "o", "n", "t", "e", "x", "t", ":", " ", "i", "n", "v", "a", "l", "i", "d", " ", "i", "n", "t", " ", "v", "a", "l", "u", "e", ":", " ", "'">>
                                \o args[k + 1] \o <<"'">>)
                ELSE parse_args_from(args, k + 2,
                        [namespace EXCEPT !.after_context =
                            [given |-> TRUE, value |-> Numerals[args[k + 1]]]])
           [] OTHER ->
                parse_args_from(args, k + 1,
                    [namespace EXCEPT !.unrecognized = Append(@, args[k])])
    ELSE IF k > Len(args)
    THEN Raised("ParsingException",
                <<"t", "h", "e", " ", "f", "o", "l", "l", "o", "w", "i", "n", "g", " ", "a", "r", "g", "u", "m", "e", "n", "t", "s", " ", "a", "r", "e", " ", "r", "e", "q", "u", "i", "r", "e", "d", ":", " ", "P", "A", "T", "T", "E", "R", "N", ",", " ", "F", "I", "L", "E">>)
    ELSE IF namespace.unrecognized # <<>>
    THEN Raised("ParsingException",
                <<"u", "n", "r", "e", "c", "o", "g", "n", "i", "z", "e", "d", " ", "a", "r", "g", "u", "m", "e", "n", "t", "s", ":", " ">> \o Join(<<" ">>, namespace.unrecognized))
    ELSE Returned([namespace EXCEPT !.PATTERN = args[k],
                                    !.FILE = SubSeq(args, k + 1, Len(args))])

parse_args(args) == parse_args_from(args, 1, Namespace)

\* '{}'.format(after_context) for the numbers of Numerals
format_numeral(number) == CHOOSE token \in DOMAIN Numerals : Numerals[token] = number

\* As extract_after_context, but a negative number is returned as it is.
extract_after_context_AllowsNegative(parsed) ==
    Returned(IF ~parsed.after_context.given THEN 0 ELSE parsed.after_context.value)

\* GrepArguments._extract_after_context
extract_after_context(parsed) ==
    LET after_context ==
            IF ~parsed.after_context.given THEN 0 ELSE parsed.after_context.value
    IN  IF after_context < 0
        THEN Raised("ParsingException",
                    format_numeral(after_context) \o <<":", " ", "i", "n", "v", "a", "l", "i", "d", " ", "c", "o", "n", "t", "e", "x", "t", " ", "l", "e", "n", "g", "t", "h", " ", "a", "r", "g", "u", "m", "e", "n", "t">>)
        ELSE Returned(after_context)

\* GrepArguments._extract_pattern: the compiled pattern, as the text to
\* find and the two things the flags change.
extract_pattern(parsed) ==
    [text |-> parsed.PATTERN, ignore_case |-> parsed.ignore_case,
     word_regexp |-> parsed.word_regexp]

\* As GrepArguments, but the context counts as set only for a positive
\* number.
GrepArguments_SetWhenPositive(args) ==
    LET parsed == parse_args(args)
        after_context == extract_after_context(parsed.val)
    IN  IF parsed.raised # "" THEN parsed
        ELSE IF after_context.raised # "" THEN after_context
        ELSE Returned([files |-> parsed.val.FILE,
                       after_context |-> after_context.val,
                       was_context_set |-> after_context.val > 0,
                       pattern |-> extract_pattern(parsed.val)])

\* GrepArguments(args)
GrepArguments(args) ==
    LET parsed == parse_args(args)
        after_context == extract_after_context(parsed.val)
    IN  IF parsed.raised # "" THEN parsed
        ELSE IF after_context.raised # "" THEN after_context
        ELSE Returned([files |-> parsed.val.FILE,
                       after_context |-> after_context.val,
                       was_context_set |-> parsed.val.after_context.given,
                       pattern |-> extract_pattern(parsed.val)])

\* A character with case distinctions ignored, for the letters the texts use.
lower(symbol) == IF symbol = "X" THEN "x" ELSE IF symbol = "Y" THEN "y" ELSE symbol

\* \w for a character of a searched line
is_word_character(symbol) == lower(symbol) \in WORD

\* \b between the characters k and k + 1 of the line: one of them is a word
\* character and the other is not, or is beyond an end of the line.
word_boundary(searched, k) ==
    (k >= 1 /\ k <= Len(searched) /\ is_word_character(searched[k]))
        # (k + 1 >= 1 /\ k + 1 <= Len(searched) /\ is_word_character(searched[k + 1]))

\* re.search(pattern, line) for a pattern whose text has no special
\* character: the text occurs in the line, compared without case when
\* ignore_case is set and between two word boundaries when word_regexp is.
re_search(pattern, searched) ==
    \E k \in 1..(Len(searched) - Len(pattern.text) + 1) :
        /\ \A j \in 1..Len(pattern.text) :
                IF pattern.ignore_case
                THEN lower(searched[k + j - 1]) = lower(pattern.text[j])
                ELSE searched[k + j - 1] = pattern.text[j]
        /\ pattern.word_regexp =>
                /\ word_boundary(searched, k - 1)
                /\ word_boundary(searched, k + Len(pattern.text) - 1)

\* GrepOutputFormatter._SEPARATOR
SEPARATOR == <<"-", "-">> \o linesep

\* The value of _last_entry before any line has been added (-1 in the
\* source; afterwards the pair of the last line's file and index).
NO_ENTRY == <<>>

\* As GrepOutputFormatter, but a single file is labelled too.
GrepOutputFormatter_LabelsOneFile(file_amount, needs_splitter) ==
    [needs_file |-> file_amount > 0, needs_splitter |-> needs_splitter,
     last_entry |-> NO_ENTRY, lines |-> <<>>]

\* GrepOutputFormatter(file_amount, needs_splitter)
GrepOutputFormatter(file_amount, needs_splitter) ==
    [needs_file |-> file_amount > 1, needs_splitter |-> needs_splitter,
     last_entry |-> NO_ENTRY, lines |-> <<>>]

add_file(formatter, file, added_line, is_match) ==
    IF formatter.needs_file
    THEN file \o (IF is_match THEN <<":">> ELSE <<"-">>) \o added_line
    ELSE added_line

\* As needs_separator, but the file of the last entry is not compared.
needs_separator_SameFileOnly(formatter, file, index) ==
    /\ formatter.needs_splitter
    /\ formatter.last_entry # NO_ENTRY
    /\ formatter.last_entry[2] + 1 < index

\* As needs_separator, but the line after the last entry counts as a gap.
needs_separator_NoGapAllowed(formatter, file, index) ==
    /\ formatter.needs_splitter
    /\ formatter.last_entry # NO_ENTRY
    /\ (formatter.last_entry[1] # file \/ formatter.last_entry[2] < index)

\* As needs_separator, but the first line gets a separator too.
needs_separator_BeforeFirst(formatter, file, index) ==
    /\ formatter.needs_splitter
    /\ \/ formatter.last_entry = NO_ENTRY
       \/ formatter.last_entry[1] # file
       \/ formatter.last_entry[2] + 1 < index

\* Whether _add_splitter appends the separator.
needs_separator(formatter, file, index) ==
    /\ formatter.needs_splitter
    /\ formatter.last_entry # NO_ENTRY
    /\ (formatter.last_entry[1] # file \/ formatter.last_entry[2] + 1 < index)

add_splitter(formatter, file, index) ==
    IF needs_separator(formatter, file, index)
    THEN [formatter EXCEPT !.lines = Append(@, SEPARATOR)]
    ELSE formatter

add_line(formatter, file, index, added_line, is_match) ==
    LET formatted == add_file(formatter, file, added_line, is_match)
        split == add_splitter(formatter, file, index)
    IN  [split EXCEPT !.last_entry = <<file, index>>,
                      !.lines = Append(@, formatted)]

\* ''.join(lines)
RECURSIVE join_lines(_)
join_lines(lines) ==
    IF lines = <<>> THEN <<>> ELSE join_lines(SubSeq(lines, 1, Len(lines) - 1)) \o lines[Len(lines)]

format(formatter) == join_lines(formatter.lines)

\* ------------------------------------------------ Grep.run on its own
\* The argument lists Grep.run is called with: options, then -A with a
\* number, then the pattern x and file names.
GrepOptionLists == {<<>>, <<<<"-", "i">>>>, <<<<"-", "w">>>>, <<<<"-", "i">>, <<"-", "w">>>>, <<<<"-", "z">>>>}

GrepContextLists == {<<>>} \cup {<<<<"-", "A">>, number>> : number \in {<<"0">>, <<"1">>, <<"2">>, <<"-", "1">>}}

\* m and n are files, g is missing.
GrepFileLists == UNION {[1..k -> {<<"m">>, <<"n">>, <<"g">>}] : k \in 0..MaxFiles}

GrepPositionalLists == {<<>>} \cup {<<<<"x">>>> \o files : files \in GrepFileLists}

GrepArgLists ==
    {options \o context \o positional :
        options \in GrepOptionLists, context \in GrepContextLists,
        positional \in GrepPositionalLists}

GrepInputs == {None, Str(<<>>), Str(<<"X", "\n", "y", "\n", "x">>), Str(<<"x", "\n", "y", "\n", "y", "\n", "x", "\n">>)}

\* Grep.run(grep_args, grep_input) is called.
GrepInit ==
    /\ grep_args \in GrepArgLists
    /\ grep_input \in GrepInputs
    /\ grep_pc = "call"
    /\ parsed_args = None
    /\ output = None
    /\ file_index = 0
    /\ grep_file = <<>>
    /\ file_contents = <<>>
    /\ line_index = 0
    /\ print_end = -1
    /\ grep_result = None
    /\ added = <<>>
    /\ variables = <<>>
    /\ is_running = TRUE
    /\ pc = "loop"
    /\ nread = 0
    /\ user_input = <<>>
    /\ stages = <<>>
    /\ current_input = None
    /\ result = None
    /\ printed = <<>>
    /\ trace = <<>>
    /\ uncaught = ""
    /\ expression = <<>>
    /\ called = ""
    /\ returned = None

other_vars == <<variables, is_running, pc, nread, user_input, stages, current_input,
                result, printed, trace, uncaught, expression, called, returned>>

\* GrepArguments(args) raises ParsingException: Grep.run raises a
\* CommandException with the same message after 'grep: '.
DecodeError ==
    /\ grep_pc = "call"
    /\ GrepArguments(grep_args).raised # ""
    /\ grep_result' = Raised("CommandException",
                             CommandException(<<"g", "r", "e", "p", ":", " ">> \o GrepArguments(grep_args).val))
    /\ grep_pc' = "raised"
    /\ UNCHANGED <<grep_args, grep_input, parsed_args, output, file_index, grep_file,
                   file_contents, line_index, print_end, added>>
    /\ UNCHANGED other_vars

\* GrepArguments(args) returns and the formatter is created.
Decode ==
    /\ grep_pc = "call"
    /\ GrepArguments(grep_args).raised = ""
    /\ parsed_args' = GrepArguments(grep_args).val
    /\ output' = GrepOutputFormatter(Len(parsed_args'.files), parsed_args'.was_context_set)
    /\ grep_pc' = "input"
    /\ UNCHANGED <<grep_args, grep_input, file_index, grep_file, file_contents,
                   line_index, print_end, grep_result, added>>
    /\ UNCHANGED other_vars

\* `if not parsed_args.files and input` holds: _get_matches is called with
\* the file name '' and the lines of the input.
SearchInput ==
    /\ grep_pc = "input"
    /\ parsed_args.files = <<>> /\ Truthy(grep_input)
    /\ grep_file' = <<>>
    /\ file_contents' = split_linesep(grep_input.text)
    /\ line_index' = 0
    /\ print_end' = -1
    /\ grep_pc' = "lines"
    /\ UNCHANGED <<grep_args, grep_input, parsed_args, output, file_index, grep_result,
                   added>>
    /\ UNCHANGED other_vars

\* `if not parsed_args.files and input` fails.
SkipInput ==
    /\ grep_pc = "input"
    /\ ~(parsed_args.files = <<>> /\ Truthy(grep_input))
    /\ grep_pc' = "files"
    /\ UNCHANGED <<grep_args, grep_input, parsed_args, output, file_index, grep_file,
                   file_contents, line_index, print_end, grep_result, added>>
    /\ UNCHANGED other_vars

\* As OpenFile, but print_end keeps the value the previous file left.
OpenFile_KeepsPrintEnd ==
    /\ grep_pc = "files"
    /\ file_index < Len(parsed_args.files)
    /\ LET file_name == parsed_args.files[file_index + 1]
           contents == read_file(<<"g", "r", "e", "p">>, file_name)
       IN  /\ contents.raised = ""
           /\ grep_file' = file_name
           /\ file_contents' = readlines(contents.val)
    /\ file_index' = file_index + 1
    /\ line_index' = 0
    /\ grep_pc' = "lines"
    /\ UNCHANGED <<grep_args, grep_input, parsed_args, output, grep_result, added,
                   print_end>>
    /\ UNCHANGED other_vars

\* _process_file reads the next file and calls _get_matches with its lines.
OpenFile ==
    /\ grep_pc = "files"
    /\ file_index < Len(parsed_args.files)
    /\ LET file_name == parsed_args.files[file_index + 1]
           contents == read_file(<<"g", "r", "e", "p">>, file_name)
       IN  /\ contents.raised = ""
           /\ grep_file' = file_name
           /\ file_contents' = readlines(contents.val)
    /\ file_index' = file_index + 1
    /\ line_index' = 0
    /\ print_end' = -1
    /\ grep_pc' = "lines"
    /\ UNCHANGED <<grep_args, grep_input, parsed_args, output, grep_result, added>>
    /\ UNCHANGED other_vars

\* As OpenFileError, but the file that cannot be read is passed over.
OpenFileError_SkipsFile ==
    /\ grep_pc = "files"
    /\ file_index < Len(parsed_args.files)
    /\ read_file(<<"g", "r", "e", "p">>, parsed_args.files[file_index + 1]).raised # ""
    /\ file_index' = file_index + 1
    /\ UNCHANGED <<grep_args, grep_input, grep_pc, parsed_args, output, grep_file,
                   file_contents, line_index, print_end, grep_result, added>>
    /\ UNCHANGED other_vars

\* open() raises IOError: Grep.run raises a CommandException.
OpenFileError ==
    /\ grep_pc = "files"
    /\ file_index < Len(parsed_args.files)
    /\ LET contents == read_file(<<"g", "r", "e", "p">>, parsed_args.files[file_index + 1])
       IN  /\ contents.raised # ""
           /\ grep_result' = contents
    /\ grep_pc' = "raised"
    /\ UNCHANGED <<grep_args, grep_input, parsed_args, output, file_index, grep_file,
                   file_contents, line_index, print_end, added>>
    /\ UNCHANGED other_vars

\* What is recorded of a call output.add_line(file, index, line, is_match):
\* its arguments, and whether it put the separator before the line.
Added(is_match) ==
    [file |-> grep_file, source |-> file_index, index |-> line_index,
     text |-> file_contents[line_index + 1], is_match |-> is_match,
     separator |-> needs_separator(output, grep_file, line_index)]

\* One turn of _get_matches' loop for a line the pattern is found in.
AddMatch ==
    /\ grep_pc = "lines"
    /\ line_index < Len(file_contents)
    /\ re_search(parsed_args.pattern, file_contents[line_index + 1])
    /\ print_end' = line_index + parsed_args.after_context
    /\ output' = add_line(output, grep_file, line_index, file_contents[line_index + 1], TRUE)
    /\ added' = Append(added, Added(TRUE))
    /\ line_index' = line_index + 1
    /\ UNCHANGED <<grep_args, grep_input, grep_pc, parsed_args, file_index, grep_file,
                   file_contents, grep_result>>
    /\ UNCHANGED other_vars

\* One turn for a line without the pattern that is within print_end.
AddContext ==
    /\ grep_pc = "lines"
    /\ line_index < Len(file_contents)
    /\ ~re_search(parsed_args.pattern, file_contents[line_index + 1])
    /\ line_index <= print_end
    /\ output' = add_line(output, grep_file, line_index, file_contents[line_index + 1], FALSE)
    /\ added' = Append(added, Added(FALSE))
    /\ line_index' = line_index + 1
    /\ UNCHANGED <<grep_args, grep_input, grep_pc, parsed_args, file_index, grep_file,
                   file_contents, print_end, grep_result>>
    /\ UNCHANGED other_vars

\* One turn for a line without the pattern that is beyond print_end.
SkipLine ==
    /\ grep_pc = "lines"
    /\ line_index < Len(file_contents)
    /\ ~re_search(parsed_args.pattern, file_contents[line_index + 1])
    /\ ~(line_index <= print_end)
    /\ line_index' = line_index + 1
    /\ UNCHANGED <<grep_args, grep_input, grep_pc, parsed_args, output, file_index,
                   grep_file, file_contents, print_end, grep_result, added>>
    /\ UNCHANGED other_vars

\* _get_matches' loop ends and _get_matches returns.
EndOfText ==
    /\ grep_pc = "lines"
    /\ line_index = Len(file_contents)
    /\ grep_pc' = "files"
    /\ UNCHANGED <<grep_args, grep_input, parsed_args, output, file_index, grep_file,
                   file_contents, line_index, print_end, grep_result, added>>
    /\ UNCHANGED other_vars

\* Every file has been searched: Grep.run returns output.format().
Format ==
    /\ grep_pc = "files"
    /\ file_index = Len(parsed_args.files)
    /\ grep_result' = Returned(Str(format(output)))
    /\ grep_pc' = "done"
    /\ UNCHANGED <<grep_args, grep_input, parsed_args, output, file_index, grep_file,
                   file_contents, line_index, print_end, added>>
    /\ UNCHANGED other_vars

GrepNext ==
    \/ DecodeError
    \/ Decode
    \/ SearchInput
    \/ SkipInput
    \/ OpenFile
    \/ OpenFileError
    \/ AddMatch
    \/ AddContext
    \/ SkipLine
    \/ EndOfText
    \/ Format

GrepSpec == GrepInit /\ [][GrepNext]_vars

\* --------------------------------------- GrepOutputFormatter on its own
\* A formatter as its constructor leaves it, before any call of add_line.
FormatterInit ==
    /\ output \in {GrepOutputFormatter(file_amount, needs_splitter) :
                      file_amount \in 0..MaxFiles, needs_splitter \in BOOLEAN}
    /\ grep_pc = "formatter"
    /\ grep_args = <<>>
    /\ grep_input = None
    /\ parsed_args = None
    /\ file_index = 0
    /\ grep_file = <<>>
    /\ file_contents = <<>>
    /\ line_index = 0
    /\ print_end = -1
    /\ grep_result = None
    /\ added = <<>>
    /\ variables = <<>>
    /\ is_running = TRUE
    /\ pc = "loop"
    /\ nread = 0
    /\ user_input = <<>>
    /\ stages = <<>>
    /\ current_input = None
    /\ result = None
    /\ printed = <<>>
    /\ trace = <<>>
    /\ uncaught = ""
    /\ expression = <<>>
    /\ called = ""
    /\ returned = None

\* output.add_line(file, index, line, is_match), with any file, index and
\* flag.
AddLine ==
    /\ grep_pc = "formatter"
    /\ Len(added) < MaxCalls
    /\ \E file \in {<<"m">>, <<"n">>}, index \in 0..2, is_match \in BOOLEAN :
        /\ output' = add_line(output, file, index, <<"x", "\n">>, is_match)
        /\ added' = Append(added,
                [file |-> file, source |-> 0, index |-> index, text |-> <<"x", "\n">>,
                 is_match |-> is_match,
                 separator |-> needs_separator(output, file, index)])
    /\ UNCHANGED <<grep_args, grep_input, grep_pc, parsed_args, file_index, grep_file,
                   file_contents, line_index, print_end, grep_result>>
    /\ UNCHANGED other_vars

\* output.format()
FormatLines ==
    /\ grep_pc = "formatter"
    /\ grep_result' = Returned(Str(format(output)))
    /\ grep_pc' = "done"
    /\ UNCHANGED <<grep_args, grep_input, parsed_args, output, file_index, grep_file,
                   file_contents, line_index, print_end, added>>
    /\ UNCHANGED other_vars

FormatterNext ==
    \/ AddLine
    \/ FormatLines

FormatterSpec == FormatterInit /\ [][FormatterNext]_vars
\* The scheduling of the single Python thread: a step that does not wait
\* for input is taken.
LiveSpec ==
    Spec /\ WF_vars(LoopExit) /\ WF_vars(PrintResult) /\ WF_vars(PipelineReturn)

\* ------------------------------------------------------------- claims
Last(s) == s[Len(s)]

\* The argument lists of the commands the current pipeline has executed.
TraceArgs == [i \in DOMAIN trace |-> trace[i].args]

\* execute_pipeline has returned from the line in user_input.
Returned_from(line) == user_input = line /\ pc \in {"print", "loop", "done"}

\* The next step of execute_pipeline meets a command whose name is exit.
ExitReached ==
    /\ pc = "exec" /\ stages # <<>>
    /\ parse(Head(stages), variables).raised = ""
    /\ LET command == parse(Head(stages), variables).val
       IN  command # <<>> /\ command[1] = <<"e", "x", "i", "t">>

TestExitLine == <<"e", "c", "h", "o", " ", "5", " ", "|", " ", "c", "a", "t", "|", "e", "x", "i", "t", " ", "|", "e", "c", "h", "o", " ", "8">>

TestFailureLine == <<"e", "c", "h", "o", " ", "w", "o", "r", "k", "e", "d", " ", "|", " ", "h", "e", "l", "l", "o", "_", "k", "i", "t", "t", "y", " ", "m", "e", "o", "w", " ", "|", " ", "e", "x", "i", "t">>

\* C5: when a command raises a CommandException no later command of the
\* pipeline is executed and the exception is the pipeline's result, not
\* an exception leaving execute_pipeline; `echo worked | hello_kitty meow
\* | exit` returns the command-not-found failure and never reaches exit.
C5_FailureAbort ==
    /\ [](Returned_from(TestFailureLine) =>
            /\ result = CommandException(<<"h", "e", "l", "l", "o", "_", "k", "i", "t", "t", "y", ":", " ", "c", "o", "m", "m", "a", "n", "d", " ", "n", "o", "t", " ", "f", "o", "u", "n", "d", ".", ".", ".">>)
            /\ is_running
            /\ TraceArgs = <<<<<<"e", "c", "h", "o">>, <<"w", "o", "r", "k", "e", "d">>>>, <<<<"h", "e", "l", "l", "o", "_", "k", "i", "t", "t", "y">>, <<"m", "e", "o", "w">>>>>>)
    /\ [][(trace' # trace /\ trace' # <<>> /\ Last(trace').raised # "") =>
            /\ result' = Last(trace').output
            /\ result'.kind = "CommandException"
            /\ pc' = "print"
            /\ stages' = <<>>
            /\ uncaught' = ""]_vars

C5_Witness ==
    /\ user_input = TestFailureLine
    /\ pc = "print"
    /\ result.kind = "CommandException"
    /\ Len(trace) = 2

AssignThenFailLine == <<"b", "=", "2", " ", "|", " ", "c", "a", "t", " ", "g", " ", "|", " ", "c", "=", "3">>

\* C6: after a pipeline has returned a failure the interpreter is still
\* running, nothing has left execute_pipeline as an exception, the
\* assignments made before the failing command are in the variables
\* (b=2 | cat g | c=3 leaves b = 2 and no c), and the loop goes on.
C6_FailureIsNotCrash ==
    /\ [](/\ (user_input = AssignThenFailLine /\ pc \notin {"reading", "exec"}) =>
            /\ result.kind = "CommandException"
            /\ uncaught \in {"", "EOFError"}
            /\ <<"b">> \in DOMAIN variables
            /\ variables[<<"b">>] = <<"2">>
            /\ <<"c">> \notin DOMAIN variables
          /\ (pc \in {"print", "loop"} /\ result.kind = "CommandException") =>
                (is_running /\ uncaught = ""))
    /\ [][(pc = "print" /\ result.kind = "CommandException") =>
            (pc' = "loop" /\ is_running' /\ variables' = variables)]_vars

\* The pipeline after a failed one is executing its commands.
C6_Witness ==
    /\ pc = "exec"
    /\ result.kind = "CommandException"
    /\ Len(trace) >= 1
    /\ trace[1].raised = ""
    /\ <<"b">> \in DOMAIN variables

\* C7: the first command of a pipeline gets None as input, every later one
\* gets exactly what the command before it returned (None after an
\* assignment), and a pipeline that neither fails nor exits returns what
\* its last command returned, after executing every one of its commands.
C7_StageThreading ==
    /\ \A i \in DOMAIN trace :
        /\ trace[i].input = IF i = 1 THEN None ELSE trace[i - 1].output
        /\ trace[i].branch = "assignment" => trace[i].output = None
        /\ i < Len(trace) => trace[i].raised = ""
    /\ pc = "exec" => current_input = IF trace = <<>> THEN None ELSE Last(trace).output
    /\ (pc = "print" /\ is_running /\ trace # <<>> /\ Last(trace).raised = "") =>
        /\ result = Last(trace).output
        /\ Len(trace) = Len(split_into_commands(user_input))
    /\ (pc = "print" /\ is_running) => trace # <<>>
    /\ Returned_from(<<"e", "c", "h", "o", " ", "s", "o", "m", "e", " ", "t", "e", "x", "t", " ", "|", " ", "e", "c", "h", "o", " ", "m", "o", "r", "e", " ", "t", "e", "x", "t">>) => result = Str(<<"m", "o", "r", "e", " ", "t", "e", "x", "t">>)
    /\ Returned_from(<<"e", "c", "h", "o", " ", "x", " ", "|", " ", "v", "a", "r", "=", "1", "7", "9", " ", "|", " ", "c", "a", "t">>) => result = None
    /\ Returned_from(<<"c", "a", "t", " ", "f", " ", "|", " ", "w", "c">>) => result = Str(<<"2", " ", "2", " ", "4">>)

C7_Witness ==
    /\ user_input = <<"e", "c", "h", "o", " ", "x", " ", "|", " ", "v", "a", "r", "=", "1", "7", "9", " ", "|", " ", "c", "a", "t">>
    /\ pc = "print"
    /\ Len(trace) = 3
    /\ trace[2].branch = "assignment"
    /\ trace[3].input = None
    /\ result = None

\* The value C8 says $name has: the one assigned in this interpreter, else
\* the one in the process environment, else ''.
claimed_lookup(store, name) ==
    IF name \in DOMAIN store THEN store[name]
    ELSE IF name \in DOMAIN Environ THEN Environ[name]
    ELSE <<>>

\* The command with every expandable $name replaced by claimed_lookup.
RECURSIVE claimed_expansion(_, _, _)
claimed_expansion(command, store, from) ==
    LET later == {i \in find_expandable_variables(command) : i >= from}
    IN  IF later = {} THEN Slice(command, from, Len(command))
        ELSE LET dollar == CHOOSE i \in later : \A j \in later : i <= j
                 end_index == find_variable_end(command, dollar + 1)
             IN  Slice(command, from, dollar)
                 \o claimed_lookup(store, Slice(command, dollar + 1, end_index))
                 \o claimed_expansion(command, store, end_index)

\* C8: whenever a command is expanded, each $name in it yields the value
\* last assigned to name in this interpreter, in an earlier pipeline as
\* well, else the environment's value, else ''.
C8_AssignmentPersistence ==
    (pc = "exec" /\ stages # <<>>) =>
        expand_variables(Head(stages), variables)
            = Returned(claimed_expansion(Head(stages), variables, 0))

TestAssignmentsLine == <<"a", "=", "7", " ", "|", " ", "c", "=", "d", "4", " ", " ", "|", " ", "e", "c", "h", "o", " ", "$", "a", "$", "c", "$", "b">>

\* C9: each command is expanded just before it is executed and so sees the
\* assignments of the commands before it in the same pipeline:
\* a=7 | c=d4 | echo $a$c$b returns 7d4 followed by the value of b.
C9_ExpansionSeesEarlierStages ==
    (user_input = TestAssignmentsLine /\ pc \notin {"reading", "exec"}) =>
        /\ result = Str(<<"7", "d", "4">> \o claimed_lookup(variables, <<"b">>))
        /\ TraceArgs = <<<<<<"a", "=", "7">>>>, <<<<"c", "=", "d", "4">>>>,
                         <<<<"e", "c", "h", "o">>, <<"7", "d", "4">> \o claimed_lookup(variables, <<"b">>)>>>>

\* The whole text matches ^\w+=\w*$.
whole_match_word_equals_word(text) ==
    \E k \in 1..(Len(text) - 1) :
        /\ \A j \in 1..k : text[j] \in WORD
        /\ text[k + 1] = "="
        /\ \A j \in (k + 2)..Len(text) : text[j] \in WORD

\* The text before the first '=' of the text is a non-empty run of word
\* characters.
name_before_first_equals(text) ==
    LET equals == {i \in 1..Len(text) : text[i] = "="}
    IN  /\ equals # {}
        /\ LET first == CHOOSE i \in equals : \A j \in equals : i <= j
           IN  first > 1 /\ \A j \in 1..(first - 1) : text[j] \in WORD

\* C10 as stated: a command is executed as an assignment iff it has exactly
\* one argument and the whole argument matches ^\w+=\w*$.
C10_WholeMatch ==
    \A i \in DOMAIN trace :
        trace[i].branch = "assignment"
            <=> (Len(trace[i].args) = 1 /\ whole_match_word_equals_word(trace[i].args[1]))

\* C10, amended: a command is executed as an assignment iff it has exactly
\* one argument and that argument starts with one or more word characters
\* followed by '='; what follows this '=' is not examined (a=b-c and a=a=a
\* are assignments, q-w=2 and a=6 b=7 are commands).
C10_AssignmentIffNamePrefix ==
    /\ \A i \in DOMAIN trace :
        /\ trace[i].branch = "assignment"
            <=> (Len(trace[i].args) = 1 /\ name_before_first_equals(trace[i].args[1]))
        /\ trace[i].branch \in {"assignment", "builtin", "external"}
    /\ Returned_from(<<"a", "=", "b", "-", "c">>) => (trace[1].branch = "assignment" /\ variables[<<"a">>] = <<"b", "-", "c">>)
    /\ Returned_from(<<"q", "-", "w", "=", "2">>) => trace[1].branch = "external"
    /\ Returned_from(<<"a", "=", "6", " ", "b", "=", "7">>) => trace[1].branch = "external"

C10_Witness ==
    /\ user_input = <<"a", "=", "b", "-", "c">>
    /\ pc = "print"
    /\ Len(trace) = 1
    /\ trace[1].branch = "assignment"
    /\ variables[<<"a">>] = <<"b", "-", "c">>


\* The step executes a command, which takes the given branch.
Executes(branch) ==
    trace' # trace /\ trace' # <<>> /\ Last(trace').branch = branch

\* C11: an assignment splits its argument at the first '=': the text
\* before it is the name, all the text after it the value stored under
\* that name, other variables staying as they are; a=a=a sets a to a=a.
C11_FirstEqualsSplits ==
    /\ [](Returned_from(<<"a", "=", "a", "=", "a">>) =>
            /\ <<"a">> \in DOMAIN variables
            /\ variables[<<"a">>] = <<"a", "=", "a">>
            /\ <<"a", "=", "a">> \notin DOMAIN variables)
    /\ [][Executes("assignment") =>
            LET argument == Last(trace').args[1]
            IN  \E k \in 1..Len(argument) :
                    LET name == SubSeq(argument, 1, k - 1)
                        value == SubSeq(argument, k + 1, Len(argument))
                    IN  /\ argument[k] = "="
                        /\ \A j \in 1..(k - 1) : argument[j] # "="
                        /\ DOMAIN variables' = DOMAIN variables \cup {name}
                        /\ variables'[name] = value
                        /\ \A other \in DOMAIN variables \ {name} :
                                variables'[other] = variables[other]]_vars

C11_Witness ==
    /\ user_input = <<"a", "=", "a", "=", "a">>
    /\ pc = "print"
    /\ Len(trace) = 1
    /\ trace[1].branch = "assignment"
    /\ variables[<<"a">>] = <<"a", "=", "a">>

\* The names C12 lists as builtins.
listed_builtins == {<<"e", "c", "h", "o">>, <<"c", "a", "t">>, <<"w", "c">>, <<"p", "w", "d">>, <<"e", "x", "i", "t">>, <<"g", "r", "e", "p">>}

\* C12: every executed command that is not an assignment and whose first
\* argument is one of echo, cat, wc, pwd, exit, grep is run by the builtin
\* of that name on (args[1:], current_input) and not by External.
C12_BuiltinDispatch ==
    \A i \in DOMAIN trace :
        (/\ trace[i].branch # "assignment"
         /\ trace[i].args # <<>>
         /\ trace[i].args[1] \in listed_builtins) =>
            /\ trace[i].branch = "builtin"
            /\ trace[i].branch # "external"

\* C13: every executed command with a non-empty argument list that is no
\* assignment and whose first argument is not a builtin name goes to
\* External.run with the whole argument list, the command's name
\* included, and the current input; when the executable is not found the
\* outcome is the failure '<name>: command not found...'.
C13_ExternalDispatch ==
    /\ \A i \in DOMAIN trace :
        (/\ trace[i].args # <<>>
         /\ ~(Len(trace[i].args) = 1 /\ name_before_first_equals(trace[i].args[1]))
         /\ trace[i].args[1] \notin listed_builtins) =>
            /\ trace[i].branch = "external"
            /\ [raised |-> trace[i].raised, val |-> trace[i].output]
                    \in External_run(trace[i].args, trace[i].input)
            /\ trace[i].args[1] \notin PathExecutables =>
                /\ trace[i].raised = "CommandException"
                /\ trace[i].output
                    = CommandException(trace[i].args[1] \o <<":", " ", "c", "o", "m", "m", "a", "n", "d", " ", "n", "o", "t", " ", "f", "o", "u", "n", "d", ".", ".", ".">>)
    /\ Returned_from(TestFailureLine) =>
        /\ trace[2].args = <<<<"h", "e", "l", "l", "o", "_", "k", "i", "t", "t", "y">>, <<"m", "e", "o", "w">>>>
        /\ trace[2].input = Str(<<"w", "o", "r", "k", "e", "d">>)
        /\ result = CommandException(<<"h", "e", "l", "l", "o", "_", "k", "i", "t", "t", "y", ":", " ", "c", "o", "m", "m", "a", "n", "d", " ", "n", "o", "t", " ", "f", "o", "u", "n", "d", ".", ".", ".">>)
    /\ Returned_from(<<"l", "s">>) => result \in {Str(<<"f">>), CommandException(<<"l", "s", ":", " ", "e">>)}

C13_Witness ==
    /\ user_input = TestFailureLine
    /\ pc = "print"
    /\ Len(trace) = 2
    /\ trace[2].branch = "external"
    /\ trace[2].args = <<<<"h", "e", "l", "l", "o", "_", "k", "i", "t", "t", "y">>, <<"m", "e", "o", "w">>>>
    /\ trace[2].output = CommandException(<<"h", "e", "l", "l", "o", "_", "k", "i", "t", "t", "y", ":", " ", "c", "o", "m", "m", "a", "n", "d", " ", "n", "o", "t", " ", "f", "o", "u", "n", "d", ".", ".", ".">>)

\* The text is empty or holds whitespace only.
is_blank(text) == \A i \in 1..Len(text) : text[i] \in WHITESPACE

\* C14: a stage that is empty, whitespace only or made of variables that
\* expand to nothing has the empty argument list; executing it returns
\* None without raising, whatever its input, and execute_pipeline('')
\* returns None.
C14_EmptyStage ==
    /\ (pc = "exec" /\ stages # <<>>
            /\ is_blank(claimed_expansion(Head(stages), variables, 0))) =>
        parse(Head(stages), variables) = Returned(<<>>)
    /\ \A i \in DOMAIN trace :
        trace[i].args = <<>> => (trace[i].raised = "" /\ trace[i].output = None)
    /\ Returned_from(<<>>) => result = None
    /\ Returned_from(<<"e", "c", "h", "o", " ", "x", " ", "|", " ", "|", " ", "c", "a", "t">>) => result = None

\* C15: looking a name up never raises and returns the value assigned in
\* this interpreter, else the environment's value, else '', for every
\* name, the empty one included; this holds both for variables[name] and
\* for the expander's _find_variable_value(name).
C15_LookupNeverErrors ==
    /\ called = "getitem" => returned = Returned(claimed_lookup(variables, expression))
    /\ called = "find_variable_value" =>
        returned = Returned(claimed_lookup(variables, expression))

\* The quoted regions of a text from position from on, found by pairing:
\* the first quote character opens a region that the next character equal
\* to it closes (the end of the text, if there is none), and the search
\* goes on after the closing one.  Positions are 1-based.
RECURSIVE quoted_regions(_, _)
quoted_regions(text, from) ==
    LET quotes == {i \in from..Len(text) : text[i] \in QUOTES}
    IN  IF quotes = {} THEN {}
        ELSE LET open == CHOOSE i \in quotes : \A j \in quotes : i <= j
                 partners == {j \in (open + 1)..Len(text) : text[j] = text[open]}
                 close == IF partners = {} THEN Len(text) + 1
                          ELSE CHOOSE i \in partners : \A j \in partners : i <= j
             IN  {[open |-> open, close |-> close, quote |-> text[open]]}
                 \cup (IF close > Len(text) THEN {} ELSE quoted_regions(text, close + 1))

\* Position i lies inside a region quoted by the given quote character.
inside_quotes(text, i, quote) ==
    \E region \in quoted_regions(text, 1) :
        region.quote = quote /\ region.open < i /\ i < region.close

\* The number of characters equal to quote that lie outside the regions
\* quoted by the other quote character.
quotes_outside(text, quote, other) ==
    Cardinality({i \in 1..Len(text) : text[i] = quote /\ ~inside_quotes(text, i, other)})

\* C16: quotes_match(t) is true iff the scan of t from UNQUOTED ends in
\* UNQUOTED, and that is so iff the single quotes outside double-quoted
\* regions and the double quotes outside single-quoted regions are both
\* even in number.
C16_QuotesMatchParity ==
    /\ called = "quotes_match" =>
        /\ returned = (scan(UNQUOTED, expression, 1, Len(expression)) = UNQUOTED)
        /\ returned = (/\ quotes_outside(expression, "'", "\"") % 2 = 0
                       /\ quotes_outside(expression, "\"", "'") % 2 = 0)
    /\ quotes_match(<<"'", "a", "'">>)
    /\ ~quotes_match(<<"'", "a">>)
    /\ quotes_match(<<"\"", "a", "'", "b", "\"">>)

C16_Witness ==
    /\ called = "quotes_match"
    /\ expression = <<"\"", "'", "\"">>
    /\ returned = TRUE

\* The positions of the pipes of a text that lie in no quoted region.
pipes_outside_quotes(text) ==
    {i \in 1..Len(text) :
        /\ text[i] = "|"
        /\ ~inside_quotes(text, i, "'")
        /\ ~inside_quotes(text, i, "\"")}

\* C17: split_into_commands returns one command more than the pipeline
\* has pipes outside quoted regions; the commands are the texts between
\* these pipes, in order and as typed, so a pipe inside single or double
\* quotes stays in its command; echo '4|cat' is one command.
C17_SplitAtUnquotedPipes ==
    /\ called = "split_into_commands" =>
        LET pipes == sorted(pipes_outside_quotes(expression))
            cuts == <<0>> \o pipes \o <<Len(expression) + 1>>
        IN  /\ Len(returned) = Len(pipes) + 1
            /\ \A k \in 1..Len(returned) :
                    returned[k] = SubSeq(expression, cuts[k] + 1, cuts[k + 1] - 1)
            /\ Join(<<"|">>, returned) = expression
    /\ split_into_commands(<<"e", "c", "h", "o", " ", "'", "4", "|", "c", "a", "t", "'">>) = <<<<"e", "c", "h", "o", " ", "'", "4", "|", "c", "a", "t", "'">>>>
    /\ split_into_commands(<<"e", "c", "h", "o", " ", "4", " ", "|", " ", "c", "a", "t">>) = <<<<"e", "c", "h", "o", " ", "4", " ">>, <<" ", "c", "a", "t">>>>

C17_Witness ==
    /\ called = "split_into_commands"
    /\ expression = <<"'", "|", "'", "|">>
    /\ returned = <<<<"'", "|", "'">>, <<>>>>

\* Every '$' of the text lies inside single quotes.
dollars_in_single_quotes(text) ==
    \A i \in 1..Len(text) : text[i] = "$" => inside_quotes(text, i, "'")

\* C18: a '$' inside single quotes is no substitution point, whatever the
\* variables hold: it is not among the expandable positions, and a text
\* whose every '$' is single-quoted expands to itself; not a '$var'
\* expands to itself even when var is assigned.
C18_SingleQuotedDollarIsLiteral ==
    /\ called = "expand_variables" =>
        /\ \A i \in 1..Len(expression) :
                (expression[i] = "$" /\ inside_quotes(expression, i, "'")) =>
                    (i - 1) \notin find_expandable_variables(expression)
        /\ dollars_in_single_quotes(expression) => returned = Returned(expression)
    /\ \A store \in {<<>>, (<<"v", "a", "r">> :> <<"5">>)} :
        expand_variables(<<"n", "o", "t", " ", "a", " ", "'", "$", "v", "a", "r", "'">>, store) = Returned(<<"n", "o", "t", " ", "a", " ", "'", "$", "v", "a", "r", "'">>)

C18_Witness ==
    /\ called = "expand_variables"
    /\ expression = <<"'", "$", "h", "'">>
    /\ <<"h">> \in DOMAIN variables
    /\ returned = Returned(<<"'", "$", "h", "'">>)

\* C19: expanding a text replaces every $name at an expandable position by
\* the value looked up for name, the name ending before the next
\* whitespace, quote or '$' or at the end of the text, an unknown name
\* giving ''; every other character is copied, in order.
C19_ExpandableDollarIsReplaced ==
    called = "expand_variables" =>
        returned = Returned(claimed_expansion(expression, variables, 0))

\* The positions of the '$' outside single quotes that are followed at
\* once by whitespace, a quote or '$', or by the end of the text.
lone_dollars(text) ==
    {i \in 1..Len(text) :
        /\ text[i] = "$"
        /\ ~inside_quotes(text, i, "'")
        /\ (i = Len(text) \/ text[i + 1] \in VARIABLE_END)}

\* The text without the characters at the given positions.
without(text, positions) ==
    LET kept == sorted({i \in 1..Len(text) : i \notin positions})
    IN  [k \in 1..Len(kept) |-> text[kept[k]]]

\* C20: an expandable '$' followed at once by a terminator or by the end
\* of the text is deleted and everything else stays: a text whose '$' are
\* all of this kind or single-quoted expands to itself without them.
C20_LoneDollarIsDeleted ==
    (/\ called = "expand_variables"
     /\ \A i \in 1..Len(expression) :
            expression[i] = "$" =>
                (i \in lone_dollars(expression) \/ inside_quotes(expression, i, "'"))) =>
        returned = Returned(without(expression, lone_dollars(expression)))

\* ------------------------------------------------- arguments and quotes
\* The positions of the quotes that open or close a quoted region.
structural_quotes(text) ==
    {region.open : region \in quoted_regions(text, 1)}
        \cup ({region.close : region \in quoted_regions(text, 1)} \cap (1..Len(text)))

\* The whitespace of a text that lies in no quoted region.
whitespace_outside_quotes(text) ==
    {i \in 1..Len(text) :
        /\ text[i] \in WHITESPACE
        /\ ~inside_quotes(text, i, "'")
        /\ ~inside_quotes(text, i, "\"")}

\* The characters at the positions low..high of a text, those dropped left out.
between(text, low, high, dropped) ==
    LET kept == sorted({i \in low..high : i \notin dropped})
    IN  [k \in 1..Len(kept) |-> text[kept[k]]]

\* The arguments of a text as the rule states them: the pieces between the
\* whitespace outside quoted regions, the empty ones dropped, each without
\* its structural quotes.
claimed_arguments(text) ==
    LET spaces == sorted(whitespace_outside_quotes(text))
        cuts == <<0>> \o spaces \o <<Len(text) + 1>>
        pieces == [k \in 1..(Len(cuts) - 1) |-> <<cuts[k] + 1, cuts[k + 1] - 1>>]
        kept == SelectSeq(pieces, LAMBDA piece : piece[1] <= piece[2])
    IN  [k \in 1..Len(kept) |->
            between(text, kept[k][1], kept[k][2], structural_quotes(text))]

quoted_quotes(text) ==
    {i \in 1..Len(text) : text[i] \in QUOTES /\ i \notin structural_quotes(text)}

\* The claim as stated: stripping the result again changes nothing.
C22_Idempotent ==
    called = "remove_quotes" => remove_quotes(returned) = returned

\* C22: remove_quotes returns the text without the quotes that open or
\* close a quoted region and keeps a quote lying inside a region quoted by
\* the other quote; stripping the result again changes nothing iff the
\* text has no such quoted quote.
C22_IdempotentWithoutQuotedQuotes ==
    /\ called = "remove_quotes" =>
        /\ returned = between(expression, 1, Len(expression), structural_quotes(expression))
        /\ (remove_quotes(returned) = returned) <=> (quoted_quotes(expression) = {})
    /\ remove_quotes(<<"a", " ", "\"", "b", "\"", " ", "'", "c", "'">>) = <<"a", " ", "b", " ", "c">>
    /\ remove_quotes(<<"\"", "'", "a", "'", "\"">>) = <<"'", "a", "'">>

C22_Witness ==
    /\ called = "remove_quotes"
    /\ expression = <<"\"", "'", "\"">>
    /\ returned = <<"'">>
    /\ remove_quotes(returned) = <<>>

\* ------------------------------------------------------------- search
\* Grep.run has decoded its arguments.
decoded == grep_pc \in {"input", "lines", "files", "done"} \/ (grep_pc = "raised" /\ output # None)

\* The lines of source s: source 0 is the input, source s >= 1 is the s-th
\* file.
source_lines(s) ==
    IF s = 0 THEN split_linesep(grep_input.text)
    ELSE readlines(Files[parsed_args.files[s]])

\* The sources whose scan has begun.
sources_begun ==
    IF ~decoded THEN {}
    ELSE (1..file_index)
            \cup (IF /\ parsed_args.files = <<>>
                     /\ Truthy(grep_input)
                     /\ grep_pc \in {"lines", "files", "done"}
                  THEN {0} ELSE {})

\* How many lines of source s the scan has passed.
lines_passed(s) ==
    IF grep_pc = "lines" /\ s = file_index THEN line_index ELSE Len(source_lines(s))

\* Line i of source s has the pattern (i is 0-based).
matches(s, i) == re_search(parsed_args.pattern, source_lines(s)[i + 1])

\* The most recent matching line before line i of source s, -1 if none.
previous_match(s, i) ==
    LET before == {j \in 0..(i - 1) : matches(s, j)}
    IN  IF before = {} THEN -1 ELSE CHOOSE j \in before : \A k \in before : k <= j

\* The calls of add_line made for line i of source s.
emitted(s, i) == {n \in 1..Len(added) : added[n].source = s /\ added[n].index = i}

\* C23: every source is scanned on its own from print_end = -1; a line is
\* emitted iff it has the pattern or lies at most after_context lines after
\* the most recent matching line before it in the same source; it is
\* flagged is_match exactly when it has the pattern, and lines are emitted
\* once, in the order of sources and lines.
C23_EmissionRule ==
    /\ (grep_pc = "lines" /\ line_index = 0) => print_end = -1
    /\ grep_pc = "lines" =>
            print_end = (IF previous_match(file_index, line_index) = -1 THEN -1
                         ELSE previous_match(file_index, line_index)
                                  + parsed_args.after_context)
    /\ \A s \in sources_begun : \A i \in 0..(lines_passed(s) - 1) :
        /\ (emitted(s, i) # {}) <=>
                \/ matches(s, i)
                \/ /\ previous_match(s, i) # -1
                   /\ i <= previous_match(s, i) + parsed_args.after_context
        /\ Cardinality(emitted(s, i)) <= 1
        /\ \A n \in emitted(s, i) :
                /\ added[n].is_match = matches(s, i)
                /\ added[n].text = source_lines(s)[i + 1]
    /\ \A n \in 1..Len(added) :
        /\ added[n].source \in sources_begun
        /\ added[n].index < lines_passed(added[n].source)
        /\ n > 1 => \/ added[n - 1].source < added[n].source
                    \/ /\ added[n - 1].source = added[n].source
                       /\ added[n - 1].index < added[n].index

\* m ends on a matching line with its window still open; n starts with a
\* line without the pattern, which is not emitted.
C23_Witness ==
    /\ grep_pc = "done"
    /\ grep_args = <<<<"-", "A">>, <<"1">>, <<"x">>, <<"m">>, <<"n">>>>
    /\ [n \in 1..Len(added) |-> <<added[n].source, added[n].index, added[n].is_match>>]
            = <<<<1, 0, TRUE>>, <<1, 1, FALSE>>, <<1, 3, TRUE>>, <<2, 1, TRUE>>>>

\* The n-th emitted line is not adjacent to the one emitted before it:
\* another source name, or a gap between their indexes.
not_adjacent(n) ==
    \/ added[n - 1].file # added[n].file
    \/ added[n - 1].index + 1 < added[n].index

\* The formatter's lines as the separator rule gives them for the first n
\* emitted lines.
RECURSIVE lines_with_separators(_)
lines_with_separators(n) ==
    IF n = 0 THEN <<>>
    ELSE lines_with_separators(n - 1)
            \o (IF parsed_args.was_context_set /\ n > 1 /\ not_adjacent(n)
                THEN <<SEPARATOR>> ELSE <<>>)
            \o <<add_file(output, added[n].file, added[n].text, added[n].is_match)>>

\* C24: the separator is put immediately before an emitted line iff -A was
\* given, a line was emitted before and that line is not adjacent to this
\* one; never before the first emitted line and never without -A.
C24_SeparatorRule ==
    decoded =>
        /\ \A n \in 1..Len(added) :
                added[n].separator <=>
                    (parsed_args.was_context_set /\ n > 1 /\ not_adjacent(n))
        /\ output.lines = lines_with_separators(Len(added))
        /\ output.lines # <<>> => output.lines[1] # SEPARATOR
        /\ ~parsed_args.was_context_set => \A k \in 1..Len(output.lines) : output.lines[k] # SEPARATOR

C24_Witness ==
    /\ grep_pc = "done"
    /\ grep_args = <<<<"-", "A">>, <<"0">>, <<"x">>, <<"m">>, <<"n">>>>
    /\ [n \in 1..Len(added) |-> added[n].separator] = <<FALSE, TRUE, TRUE>>
    /\ grep_result = Returned(Str(<<"m", ":", "x", "\n", "-", "-", "\n", "m", ":", "x", "\n", "-", "-", "\n", "n", ":", "x", "y">>))

\* The emitted lines of source s, as positions in added.
emitted_of(s) == {n \in 1..Len(added) : added[n].source = s}

\* Every match of source s emitted so far lies inside or directly after
\* the window of the match before it.
matches_within_windows(s) ==
    \A n \in emitted_of(s) :
        (added[n].is_match /\ previous_match(s, added[n].index) # -1) =>
            added[n].index <= previous_match(s, added[n].index) + parsed_args.after_context + 1

C25_OneGroup ==
    /\ grep_pc = "done"
    /\ grep_args = <<<<"-", "A">>, <<"2">>, <<"x">>, <<"m">>>>
    /\ grep_result = Returned(Str(<<"x", "\n", "y", "\n", "y", "\n", "x", "\n">>))

\* The formatter's line for the n-th emitted line: the separators put
\* before it and before the earlier ones precede it.
line_of(n) ==
    output.lines[n + Cardinality({k \in 1..n : added[k].separator})]

\* C26: when more than one file was given, every emitted line is its source
\* name, then ':' for a match and '-' for a context line, then the line;
\* with no file or one file it is the line alone.
C26_SourceLabels ==
    decoded =>
        \A n \in 1..Len(added) :
            line_of(n) =
                IF Len(parsed_args.files) > 1
                THEN added[n].file \o (IF added[n].is_match THEN <<":">> ELSE <<"-">>) \o added[n].text
                ELSE added[n].text

C26_Witness ==
    /\ grep_pc = "done"
    /\ grep_args = <<<<"-", "A">>, <<"1">>, <<"x">>, <<"m">>, <<"n">>>>
    /\ output.lines = <<<<"m", ":", "x", "\n">>, <<"m", "-", "y", "\n">>, <<"-", "-", "\n">>, <<"m", ":", "x", "\n">>, <<"-", "-", "\n">>, <<"n", ":", "x", "y">>>>


\* ---------------------------------------------------------- decoding
\* The positions of the argument list that hold the flag -A.
context_flags == {k \in 1..Len(grep_args) : grep_args[k] = <<"-", "A">>}

\* C27: after_context is 0 when -A is absent and the number after -A when
\* it is given; was_context_set is true iff -A is given, -A 0 included;
\* the formatter puts separators only when the flag is given, whatever
\* its number.
C27_ContextDefaultAndFlag ==
    /\ decoded =>
        /\ parsed_args.was_context_set <=> (context_flags # {})
        /\ context_flags = {} => parsed_args.after_context = 0
        /\ \A k \in context_flags : parsed_args.after_context = Numerals[grep_args[k + 1]]
        /\ output.needs_splitter <=> (context_flags # {})
        /\ (\E n \in 1..Len(added) : added[n].separator) => context_flags # {}
    /\ GrepArguments(<<<<"x">>>>).val.after_context = 0
    /\ ~GrepArguments(<<<<"x">>>>).val.was_context_set
    /\ GrepArguments(<<<<"-", "A">>, <<"0">>, <<"x">>>>).val.after_context = 0
    /\ GrepArguments(<<<<"-", "A">>, <<"0">>, <<"x">>>>).val.was_context_set

\* -A 0: no context line, and a separator between the two matches.
C27_Witness ==
    /\ grep_pc = "done"
    /\ grep_args = <<<<"-", "A">>, <<"0">>, <<"x">>, <<"m">>>>
    /\ parsed_args.after_context = 0
    /\ parsed_args.was_context_set
    /\ grep_result = Returned(Str(<<"x", "\n", "-", "-", "\n", "x", "\n">>))

\* The positions of the argument list that hold a positional argument:
\* no flag and not the number of -A.
positionals ==
    {k \in 1..Len(grep_args) :
        /\ grep_args[k][1] # "-"
        /\ (k = 1 \/ grep_args[k - 1] # <<"-", "A">>)}

\* The argument list has an unknown flag, no pattern or a negative context.
undecodable ==
    \/ \E k \in 1..Len(grep_args) : grep_args[k] = <<"-", "z">>
    \/ positionals = {}
    \/ \E k \in context_flags : Numerals[grep_args[k + 1]] < 0

\* C28: for an argument list with an unknown flag, without pattern or with
\* a negative context, GrepArguments raises ParsingException and Grep.run
\* raises CommandException with 'grep: ' before the same message; no source
\* is scanned and nothing is put out.
C28_DecodingErrors ==
    /\ undecodable =>
        /\ GrepArguments(grep_args).raised = "ParsingException"
        /\ grep_pc \in {"call", "raised"}
        /\ grep_pc = "raised" =>
                grep_result = Raised("CommandException",
                    CommandException(<<"g", "r", "e", "p", ":", " ">> \o GrepArguments(grep_args).val))
        /\ parsed_args = None /\ output = None
        /\ file_index = 0 /\ file_contents = <<>> /\ added = <<>>
    /\ GrepArguments(<<<<"-", "z">>, <<"x">>>>).raised = "ParsingException"
    /\ GrepArguments(<<<<"-", "z">>, <<"x">>>>).val = <<"u", "n", "r", "e", "c", "o", "g", "n", "i", "z", "e", "d", " ", "a", "r", "g", "u", "m", "e", "n", "t", "s", ":", " ", "-", "z">>
    /\ GrepArguments(<<>>).raised = "ParsingException"
    /\ GrepArguments(<<>>).val = <<"t", "h", "e", " ", "f", "o", "l", "l", "o", "w", "i", "n", "g", " ", "a", "r", "g", "u", "m", "e", "n", "t", "s", " ", "a", "r", "e", " ", "r", "e", "q", "u", "i", "r", "e", "d", ":", " ", "P", "A", "T", "T", "E", "R", "N", ",", " ", "F", "I", "L", "E">>
    /\ GrepArguments(<<<<"-", "A">>, <<"-", "1">>, <<"x">>>>).raised = "ParsingException"
    /\ GrepArguments(<<<<"-", "A">>, <<"-", "1">>, <<"x">>>>).val = <<"-", "1", ":", " ", "i", "n", "v", "a", "l", "i", "d", " ", "c", "o", "n", "t", "e", "x", "t", " ", "l", "e", "n", "g", "t", "h", " ", "a", "r", "g", "u", "m", "e", "n", "t">>

C28_Witness ==
    /\ grep_pc = "raised"
    /\ grep_args = <<<<"-", "A">>, <<"-", "1">>, <<"x">>, <<"m">>>>
    /\ grep_result = Raised("CommandException",
                            CommandException(<<"g", "r", "e", "p", ":", " ", "-", "1", ":", " ", "i", "n", "v", "a", "l", "i", "d", " ", "c", "o", "n", "t", "e", "x", "t", " ", "l", "e", "n", "g", "t", "h", " ", "a", "r", "g", "u", "m", "e", "n", "t">>))
    /\ added = <<>>

\* C29: every line the formatter joins ends with its own line break, for
\* the lines of a file and of the input alike, so that no two emitted lines
\* run together in the output.
C29_LinesKeepTerminators ==
    decoded =>
        \A k \in 1..Len(output.lines) :
            /\ output.lines[k] # <<>>
            /\ output.lines[k][Len(output.lines[k])] = "\n"

\* ------------------------------------------------------------- reader
\* The last character of the text that is no whitespace is a pipe.
trailing_pipe(text) ==
    \E i \in 1..Len(text) :
        text[i] = "|" /\ \A j \in (i + 1)..Len(text) : text[j] \in WHITESPACE

\* execute_pipeline has been called with user_input.
handed_to_execute ==
    pc \in {"exec", "print"} \/ (pc = "crashed" /\ uncaught # "EOFError")

\* C30: Reader.read appends a line break and one further line while the
\* text has unmatched quotes or a pipe as its last character before
\* trailing whitespace, and returns it otherwise; so every text handed to
\* execute_pipeline has matching quotes and no trailing pipe.
C30_CompleteLinesOnly ==
    /\ [](handed_to_execute => (quotes_match(user_input) /\ ~trailing_pipe(user_input)))
    /\ [][(pc = "reading" /\ user_input' # user_input) =>
            /\ ~quotes_match(user_input) \/ trailing_pipe(user_input)
            /\ pc' = "reading"
            /\ \E typed \in TypedLines : user_input' = user_input \o <<"\n">> \o typed]_vars
    /\ [][(pc = "reading" /\ pc' = "exec") =>
            /\ quotes_match(user_input) /\ ~trailing_pipe(user_input)
            /\ user_input' = user_input]_vars

\* echo 5 | was continued by a second line before it was executed.
C30_Witness ==
    /\ pc = "exec"
    /\ nread = 2
    /\ user_input = <<"e", "c", "h", "o", " ", "5", " ", "|", "\n", "p", "w", "d">>

\* ------------------------------------------------------------ printing
\* C31: after each pipeline run prints the result whenever it is not None,
\* a str and a CommandException alike, and prints nothing only when it is
\* None.
C31_PrintsEveryResult ==
    [][(pc = "print" /\ pc' = "loop") =>
            printed' = IF result # None THEN Append(printed, result.text) ELSE printed]_vars

\* ------------------------------------------------------- quote states
\* C32: _next_state maps, for a double quote, UNQUOTED to IN_DOUBLE,
\* IN_DOUBLE to UNQUOTED and IN_SINGLE to itself; for a single quote,
\* UNQUOTED to IN_SINGLE, IN_SINGLE to UNQUOTED and IN_DOUBLE to itself;
\* for any other symbol every state to itself; the result is one of the
\* three states.
C32_NextStateTable ==
    called = "next_state" =>
        /\ returned.next \in {UNQUOTED, IN_SINGLE, IN_DOUBLE}
        /\ returned.next =
            IF expression[1] = "\""
            THEN (CASE returned.state = UNQUOTED -> IN_DOUBLE
                    [] returned.state = IN_DOUBLE -> UNQUOTED
                    [] returned.state = IN_SINGLE -> IN_SINGLE)
            ELSE IF expression[1] = "'"
            THEN (CASE returned.state = UNQUOTED -> IN_SINGLE
                    [] returned.state = IN_SINGLE -> UNQUOTED
                    [] returned.state = IN_DOUBLE -> IN_DOUBLE)
            ELSE returned.state

\* A single quote met inside double quotes.
C32_Witness ==
    /\ called = "next_state"
    /\ expression = <<"'">>
    /\ returned = [state |-> IN_DOUBLE, next |-> IN_DOUBLE]

\* C33: find_expandable_variables returns exactly the indexes of the '$'
\* at which the scan is not in single quotes: a '$' outside quotes or
\* inside double quotes is returned, a '$' inside single quotes is not,
\* and no index of another character is.
C33_ExpandableDollars ==
    /\ called = "find_expandable_variables" =>
        /\ returned = {i \in 0..(Len(expression) - 1) :
                          /\ expression[i + 1] = "$"
                          /\ ~inside_quotes(expression, i + 1, "'")}
        /\ \A i \in returned : expression[i + 1] = "$"
        /\ \A i \in 0..(Len(expression) - 1) :
                (expression[i + 1] = "$" /\ inside_quotes(expression, i + 1, "\"")) =>
                    i \in returned
    /\ find_expandable_variables(<<"e", "c", "h", "o", " ", "\"", "$", "5", " ", "$", "6", "\"", " ", "|", " ", "$", "7">>) = {6, 9, 15}
    /\ find_expandable_variables(<<"e", "c", "h", "o", " ", "'", "$", "5">>) = {}

\* One '$' outside quotes and one inside single quotes.
C33_Witness ==
    /\ called = "find_expandable_variables"
    /\ expression = <<"$", "'", "$", "'">>
    /\ returned = {0}

\* The positions of a text that lie in no quoted region and are no quote
\* that opens or closes one.
outside_quotes(text) ==
    {i \in 1..Len(text) :
        /\ i \notin structural_quotes(text)
        /\ ~inside_quotes(text, i, "'")
        /\ ~inside_quotes(text, i, "\"")}

\* C34: find_unquoted_symbols returns exactly the indexes of the symbols
\* of the pattern before or after which the scan is UNQUOTED; for the
\* quotes these are the quotes that open or close a quoted region, never a
\* quote inside a region of the other kind; for other symbols these are
\* the ones outside every quoted region.
C34_UnquotedSymbols ==
    /\ called = "find_unquoted_symbols" =>
        /\ returned.indexes =
                {i \in 0..(Len(expression) - 1) :
                    /\ expression[i + 1] \in returned.pattern
                    /\ \/ scan(UNQUOTED, expression, 1, i) = UNQUOTED
                       \/ scan(UNQUOTED, expression, 1, i + 1) = UNQUOTED}
        /\ returned.pattern = QUOTES =>
                {i + 1 : i \in returned.indexes} = structural_quotes(expression)
        /\ returned.pattern # QUOTES =>
                {i + 1 : i \in returned.indexes} =
                    {i \in outside_quotes(expression) : expression[i] \in returned.pattern}
    /\ find_unquoted_symbols(<<"\"", "'", "\"", "'", "'", "\"", "'", "\"">>, QUOTES) = {0, 2, 3, 4, 5, 7}
    /\ find_unquoted_symbols(<<"a", "\"", "b", "\"", "'", "c", "'", "d">>, QUOTES) = {1, 3, 4, 6}

\* The single quote inside the double quotes is not returned.
C34_Witness ==
    /\ called = "find_unquoted_symbols"
    /\ expression = <<"\"", "'", "\"">>
    /\ returned = [pattern |-> QUOTES, indexes |-> {0, 2}]

\* The positions of the text where the rule splits it: for the quotes the
\* ones that open or close a region, for other symbols the ones outside
\* every quoted region.
unquoted_matches(text, pattern) ==
    IF pattern = QUOTES THEN structural_quotes(text)
    ELSE {i \in outside_quotes(text) : text[i] \in pattern}

\* The segments with the consumed delimiters put back between them.
RECURSIVE rejoined(_, _)
rejoined(segments, delimiters) ==
    IF Len(segments) = 1 THEN segments[1]
    ELSE rejoined(SubSeq(segments, 1, Len(segments) - 1),
                  SubSeq(delimiters, 1, Len(delimiters) - 1))
            \o <<delimiters[Len(delimiters)]>> \o segments[Len(segments)]

\* C35: split_keeping_quotes returns one segment more than the text has
\* unquoted matches of the delimiter, in the order of the text; the
\* segments with the consumed delimiters between them give the text back;
\* each segment is the text between two consecutive unquoted matches, so
\* it holds no unquoted delimiter and keeps the quoted ones as typed.
C35_SplitOnUnquoted ==
    called = "split_keeping_quotes" =>
        LET splits == sorted(unquoted_matches(expression, returned.pattern))
            cuts == <<0>> \o splits \o <<Len(expression) + 1>>
            consumed == [k \in 1..Len(splits) |-> expression[splits[k]]]
        IN  /\ Len(returned.segments) = Len(splits) + 1
            /\ Len(returned.segments) =
                    Cardinality(find_unquoted_symbols(expression, returned.pattern)) + 1
            /\ rejoined(returned.segments, consumed) = expression
            /\ \A k \in 1..Len(returned.segments) :
                    returned.segments[k] = SubSeq(expression, cuts[k] + 1, cuts[k + 1] - 1)

\* The pipe inside the quotes stays in its segment.
C35_Witness ==
    /\ called = "split_keeping_quotes"
    /\ expression = <<"'", "|", "'", "|">>
    /\ returned = [pattern |-> PIPE, segments |-> <<<<"'", "|", "'">>, <<>>>>]

\* ------------------------------------------------------ variable store
\* The name an assignment's argument sets: the text before its first '='.
assigned_name(argument) ==
    LET equals == {k \in 1..Len(argument) : argument[k] = "="}
        first == CHOOSE k \in equals : \A j \in equals : k <= j
    IN  SubSeq(argument, 1, first - 1)

\* C36: a step that executes no assignment (a builtin, an external
\* command, an empty command, a failing one, or no command at all) leaves
\* the variables as they are; an assignment changes the value of its own
\* name only and leaves is_running as it is.
C36_StoreFrame ==
    /\ [][~Executes("assignment") => variables' = variables]_vars
    /\ [][Executes("assignment") =>
            LET name == assigned_name(Last(trace').args[1])
            IN  /\ DOMAIN variables \subseteq DOMAIN variables'
                /\ DOMAIN variables' \subseteq DOMAIN variables \cup {name}
                /\ \A other \in DOMAIN variables \ {name} :
                        variables'[other] = variables[other]
                /\ is_running' = is_running]_vars

\* After a=7, the line b=2 | cat g | c=3 has set b, kept a, and its failing
\* command has changed nothing.
C36_Witness ==
    /\ user_input = <<"b", "=", "2", " ", "|", " ", "c", "a", "t", " ", "g", " ", "|", " ", "c", "=", "3">>
    /\ pc = "print"
    /\ result.kind = "CommandException"
    /\ variables = (<<"a">> :> <<"7">>) @@ (<<"b">> :> <<"2">>)

\* ------------------------------------------------- expansion and stages
\* C37: the line is split into commands before any of them is expanded and
\* the text put in for $name is not scanned again: the commands executed
\* and left to execute are those of the raw line, and after a='|' the line
\* echo $a runs the one command echo with the argument | and returns it.
C37_SinglePassExpansion ==
    /\ pc = "exec" => Len(trace) + Len(stages) = Len(split_into_commands(user_input))
    /\ (/\ user_input = <<"e", "c", "h", "o", " ", "$", "a">>
        /\ <<"a">> \in DOMAIN variables
        /\ variables[<<"a">>] = <<"|">>) =>
            /\ uncaught = ""
            /\ Returned_from(<<"e", "c", "h", "o", " ", "$", "a">>) =>
                    /\ Len(trace) = 1
                    /\ trace[1].args = <<<<"e", "c", "h", "o">>, <<"|">>>>
                    /\ result = Str(<<"|">>)

\* ------------------------------------------------ separators in output
\* The place of the n-th added line in the formatter's lines.
line_position(n) == n + Cardinality({k \in 1..n : added[k].separator})

\* The places of the separators: one before each added line that got one.
separator_positions ==
    {line_position(n) - 1 : n \in {k \in 1..Len(added) : added[k].separator}}

\* C38: whatever calls of add_line are made, the formatter's lines never
\* hold two separators in a row, nor a separator as the first or as the
\* last line, and the separators are at most one fewer than the added
\* lines.
C38_SeparatorsBetweenLines ==
    grep_pc \in {"formatter", "done"} =>
        /\ Len(output.lines) = Len(added) + Cardinality(separator_positions)
        /\ \A p \in 1..Len(output.lines) :
                (output.lines[p] = SEPARATOR) <=> (p \in separator_positions)
        /\ 1 \notin separator_positions
        /\ Len(output.lines) \notin separator_positions
        /\ \A p \in separator_positions : (p + 1) \notin separator_positions
        /\ added # <<>> => Cardinality(separator_positions) <= Len(added) - 1
        /\ added = <<>> => output.lines = <<>>
        /\ grep_pc = "done" => grep_result = Returned(Str(join_lines(output.lines)))

\* Three lines, each apart from the one before it.
C38_Witness ==
    /\ grep_pc = "done"
    /\ [n \in 1..Len(added) |-> <<added[n].file, added[n].index>>]
            = <<<<<<"m">>, 0>>, <<<<"m">>, 2>>, <<<<"n">>, 0>>>>
    /\ output.lines = <<<<"x", "\n">>, <<"-", "-", "\n">>, <<"x", "\n">>, <<"-", "-", "\n">>, <<"x", "\n">>>>
    /\ grep_result = Returned(Str(<<"x", "\n", "-", "-", "\n", "x", "\n", "-", "-", "\n", "x", "\n">>))

\* ------------------------------------------------------ unreadable file
\* The file arguments that cannot be read, as positions in the list.
unreadable == {k \in 1..Len(parsed_args.files) : parsed_args.files[k] \notin DOMAIN Files}

\* C39: when a file argument cannot be read, Grep.run raises
\* CommandException with 'grep: ' before the message of the first such
\* file and returns nothing, the lines of earlier files included; the
\* files are read in the order of the arguments, and the input is searched
\* only when there is no file argument.
C39_UnreadableFile ==
    decoded =>
        /\ unreadable # {} =>
            /\ grep_pc # "done"
            /\ grep_pc = "raised" =>
                LET first == CHOOSE k \in unreadable : \A j \in unreadable : k <= j
                IN  /\ grep_result = Raised("CommandException",
                            CommandException(<<"g", "r", "e", "p", ":", " ">>
                                \o IOErrorMessage(parsed_args.files[first])))
                    /\ file_index = first - 1
        /\ (unreadable = {} /\ grep_pc = "raised") => FALSE
        /\ \A n \in 1..Len(added) :
            /\ added[n].source <= file_index
            /\ n > 1 => added[n - 1].source <= added[n].source
            /\ added[n].source >= 1 => added[n].file = parsed_args.files[added[n].source]
            /\ added[n].source = 0 => parsed_args.files = <<>>
        /\ (parsed_args.files = <<>> /\ Truthy(grep_input) /\ grep_pc = "done") =>
                (added = <<>>) <=>
                    (\A i \in 1..Len(source_lines(0)) : ~matches(0, i - 1))
        /\ (parsed_args.files = <<>> /\ ~Truthy(grep_input) /\ grep_pc = "done") =>
                grep_result = Returned(Str(<<>>))

\* Two lines of m were matched before g could not be opened.
C39_Witness ==
    /\ grep_pc = "raised"
    /\ grep_args = <<<<"x">>, <<"m">>, <<"g">>>>
    /\ grep_input = Str(<<"X", "\n", "y", "\n", "x">>)
    /\ Len(added) = 2
    /\ grep_result = Raised("CommandException", CommandException(<<"g", "r", "e", "p", ":", " ", "[", "E", "r", "r", "n", "o", " ", "2", "]", " ", "g">>))
====
